---- MODULE Spec2Model ----
(***************************************************************************)
(* Model of the asynchronous core of the toytoolkit client library         *)
(* (clients/window.c: event loop, redraw scheduler, data offers) and of    *)
(* the compositor's primary-selection channel (src/primary-selection.c).   *)
(*                                                                         *)
(* Three specifications share the module:                                  *)
(*   Spec       display_run with the windows' redraw tasks                 *)
(*   SpecOffer  data offers and their streamed reads                       *)
(*   SpecSeat   the seat's primary selection                               *)
(***************************************************************************)
EXTENDS Integers, Sequences, FiniteSets, TLC

VARIABLES
    pc,               \* position of display_run / of the process
    running,          \* display->running
    deferred_list,    \* display->deferred_list, head first
    epoll_out,        \* EPOLLOUT interest registered on display_fd
    display_fd_events,\* display->display_fd_events
    win,              \* struct window, per window
    surf,             \* struct surface, per surface
    cbs,              \* live wl_callback proxies per surface, oldest first
    defer_order,      \* history: tasks deferred and not yet run, oldest first
    hist,             \* history: flags about the connection
    last,             \* history: the step just taken
    window_list,      \* display->window_list
    env,              \* what the environment of the process can do
    offer,            \* struct data_offer, per offer
    fds,              \* descriptor table of the client process
    input,            \* struct input: drag_offer, selection_offer
    blocked,          \* the offer whose task is blocked in read(), or "-"
    olast,            \* history: the data-offer step just taken
    seat,             \* struct weston_seat (primary selection part)
    sources,          \* struct weston_data_source, per source
    slast,            \* history: the compositor step just taken
    parent,           \* struct widget owning a tooltip, and its struct tooltip
    repeat,           \* the key-repeat timer of the input
    cursor,           \* the cursor-delay timer of the input
    batch,            \* position of display_run in the batch of epoll_wait
    app               \* a task of the application handed to display_defer

loopvars  == <<pc, running, deferred_list, epoll_out, display_fd_events,
               win, surf, cbs, defer_order, hist, last,
               window_list, env>>
offervars == <<offer, fds, input, blocked, olast>>
seatvars  == <<seat, sources, slast>>
timervars == <<parent, repeat, cursor, batch>>
vars      == <<loopvars, offervars, seatvars, timervars, app>>

-----------------------------------------------------------------------------
(* Bounds and program constants *)

MaxDimK    == 2      \* widths requested are multiples of DimUnit up to this
DimUnit    == 150
min_width  == 200
min_height == 200

Windows  == {"w1", "w2"}
Surfaces == {"m1", "s1", "m2"}

main_surface(w) == IF w = "w1" THEN "m1" ELSE "m2"

\* window->subsurface_list: surface_create inserts at the head, so a
\* sub-surface precedes the main surface.
subsurface_list(w) == IF w = "w1" THEN <<"s1", "m1">> ELSE <<"m2">>

window_of(s) == IF s \in {"m1", "s1"} THEN "w1" ELSE "w2"

SeqToSet(q) == {q[i] : i \in 1..Len(q)}

Rect(w, h) == [width |-> w, height |-> h]
NoBuffer   == [width |-> -1, height |-> -1]

\* The sizes the shell and the application ask for: the first window is
\* resized freely, to a zero width too where the environment does so; the
\* second keeps one size.
Widths(w) == IF w = "w1"
             THEN {k * DimUnit : k \in (IF env.zero THEN 0 ELSE MaxDimK)..MaxDimK}
             ELSE {DimUnit}
Heights == {DimUnit}

Live        == SeqToSet(window_list)
LiveSurface == {s \in Surfaces : window_of(s) \in Live}

\* Two environments: a program with two windows whose backing stores are
\* always there, and a program with one window on a system where storage
\* can run out and the application animates.
EnvLoop   == [zero |-> FALSE, faulty |-> FALSE, anim |-> FALSE]
EnvRedraw == [zero |-> TRUE, faulty |-> TRUE, anim |-> TRUE]

-----------------------------------------------------------------------------
(* Buffer geometry *)

Rotated(t) == t \in {"90", "270"}

surface_to_buffer_size(t, scale, r) ==
    LET r1 == IF Rotated(t) THEN Rect(r.height, r.width) ELSE r
    IN  Rect(r1.width * scale, r1.height * scale)

buffer_to_surface_size(t, scale, r) ==
    LET r1 == IF Rotated(t) THEN Rect(r.height, r.width) ELSE r
    IN  Rect(r1.width \div scale, r1.height \div scale)

-----------------------------------------------------------------------------
(* The client state the redraw code works on, bundled for sequencing *)

Bundle == [win |-> win, surf |-> surf, cbs |-> cbs,
           deferred_list |-> deferred_list, defer_order |-> defer_order,
           running |-> running, status |-> "ok", committed |-> {}]

\* A display_defer that queues at the wrong end of the list.
display_defer_tail(c, task) ==
    [c EXCEPT !.deferred_list = Append(@, task),
              !.defer_order   = Append(@, task)]

display_defer(c, task) ==
    [c EXCEPT !.deferred_list = <<task>> \o @,
              !.defer_order   = Append(@, task)]

display_exit(c) == [c EXCEPT !.running = FALSE]

\* A window_schedule_redraw_task that defers the task on every request.
window_schedule_redraw_task_always(c, w) ==
    [display_defer(c, w) EXCEPT !.win[w].redraw_task_scheduled = TRUE]

window_schedule_redraw_task(c, w) ==
    IF ~c.win[w].redraw_task_scheduled
    THEN [display_defer(c, w) EXCEPT !.win[w].redraw_task_scheduled = TRUE]
    ELSE c

widget_schedule_redraw(c, s) ==
    window_schedule_redraw_task(
        [c EXCEPT !.surf[s].redraw_needed = TRUE], window_of(s))

window_schedule_redraw(c, w) ==
    window_schedule_redraw_task(
        [c EXCEPT !.surf = [s \in Surfaces |->
            IF s \in SeqToSet(subsurface_list(w))
            THEN [@[s] EXCEPT !.redraw_needed = TRUE] ELSE @[s]]], w)

window_schedule_resize(c, w, width, height) ==
    LET wn   == c.win[w]
        minA == IF wn.min_allocation.width = 0
                THEN Rect(IF width < min_width /\ wn.frame
                          THEN min_width ELSE width,
                          IF height < min_height /\ wn.frame
                          THEN min_height ELSE height)
                ELSE wn.min_allocation
        pend == Rect(IF width < minA.width THEN minA.width ELSE width,
                     IF height < minA.height THEN minA.height ELSE height)
        c1   == [c EXCEPT !.win[w].pending_allocation = pend,
                          !.win[w].min_allocation = minA,
                          !.win[w].resize_needed = TRUE]
    IN  window_schedule_redraw(c1, w)

\* The margin a frame adds around the window geometry (theme value).
shadow_margin == 0

window_get_shadow_margin(c, w) ==
    IF c.win[w].frame /\ ~c.win[w].fullscreen THEN shadow_margin ELSE 0

\* The xdg_surface configure event: states is the set of states the
\* compositor sent, width and height the geometry it asks for (0 leaves
\* the size to the client, which goes back to saved_allocation).
handle_surface_configure(c, w, width, height, states) ==
    LET c1 == [c EXCEPT !.win[w].maximized = "maximized" \in states,
                        !.win[w].fullscreen = "fullscreen" \in states]
        margin == window_get_shadow_margin(c1, w)
    IN  IF width > 0 /\ height > 0
        THEN window_schedule_resize(c1, w, width + margin * 2,
                                    height + margin * 2)
        ELSE window_schedule_resize(c1, w,
                                    c1.win[w].saved_allocation.width,
                                    c1.win[w].saved_allocation.height)

\* The main widget's resize handler lays out the sub-surface root widgets;
\* here a sub-surface covers the window.
resize_handler(alloc) == alloc

\* A surface_resize that asks for no redraw when the size changes.
surface_resize_quiet(c, s, walloc) ==
    [c EXCEPT !.surf[s].allocation = walloc]

\* surface_resize with the allocation its widget was given.
surface_resize(c, s, walloc) ==
    LET c1 == IF c.surf[s].allocation.width # walloc.width
                 \/ c.surf[s].allocation.height # walloc.height
              THEN window_schedule_redraw(c, window_of(s))
              ELSE c
    IN  [c1 EXCEPT !.surf[s].allocation = walloc]

RECURSIVE ResizeSubs(_, _, _, _)
ResizeSubs(c, w, i, alloc) ==
    IF i > Len(subsurface_list(w)) THEN c
    ELSE LET s == subsurface_list(w)[i]
         IN  IF s = main_surface(w)
             THEN ResizeSubs(c, w, i + 1, alloc)
             ELSE ResizeSubs(surface_resize(c, s, resize_handler(alloc)),
                             w, i + 1, alloc)

window_do_resize(c, w) ==
    LET pend == c.win[w].pending_allocation
        c1   == surface_resize(c, main_surface(w), pend)
        c2   == ResizeSubs(c1, w, 1, pend)
    IN  IF ~c2.win[w].fullscreen /\ ~c2.win[w].maximized
        THEN [c2 EXCEPT !.win[w].saved_allocation = pend]
        ELSE c2

idle_resize(c, w) ==
    window_do_resize([c EXCEPT !.win[w].resize_needed = FALSE,
                               !.win[w].redraw_needed = TRUE], w)

\* An undo_resize that goes back to the saved allocation.
undo_resize_saved(c, w) ==
    LET sa == c.win[w].saved_allocation
        c1 == [c EXCEPT !.win[w].pending_allocation =
                            Rect(sa.width, sa.height)]
        c2 == window_do_resize(c1, w)
    IN  IF c2.win[w].pending_allocation.width = 0
           /\ c2.win[w].pending_allocation.height = 0
        THEN [c2 EXCEPT !.status = "exit"]
        ELSE c2

undo_resize(c, w) ==
    LET sa == c.surf[main_surface(w)].server_allocation
        c1 == [c EXCEPT !.win[w].pending_allocation =
                            Rect(sa.width, sa.height)]
        c2 == window_do_resize(c1, w)
    IN  IF c2.win[w].pending_allocation.width = 0
           /\ c2.win[w].pending_allocation.height = 0
        THEN [c2 EXCEPT !.status = "exit"]
        ELSE c2

-----------------------------------------------------------------------------
(* Frame callbacks and painting *)

Front(q) == SubSeq(q, 1, Len(q) - 1)

\* A cancellation that leaves the proxy alive.
wl_callback_destroy_leak(c, s, ub) == c

\* wl_callback_destroy(surface->frame_cb).  frame_cb refers to the newest
\* proxy of the surface; destroying a proxy that was destroyed before is
\* undefined: it has no effect, crashes, or hits the proxy of another
\* surface that reuses the memory (ub names the outcome).
wl_callback_destroy(c, s, ub) ==
    IF c.surf[s].frame_cb = "live"
    THEN [c EXCEPT !.cbs[s] = Front(@), !.surf[s].frame_cb = "dangling"]
    ELSE IF ub = "crash" THEN [c EXCEPT !.status = "crash"]
    ELSE IF ub \in Surfaces /\ ub # s /\ c.surf[ub].frame_cb = "live"
    THEN [c EXCEPT !.cbs[ub] = Front(@), !.surf[ub].frame_cb = "dangling"]
    ELSE c

\* toysurface->prepare: no storage for a zero-sized buffer; any other
\* size can fail when the pool cannot be created (ok is the outcome).
surface_create_surface(c, s, ok) ==
    LET sf  == c.surf[s]
        buf == surface_to_buffer_size(sf.buffer_transform, sf.buffer_scale,
                                      sf.allocation)
    IN  IF ok /\ buf.width > 0 /\ buf.height > 0
        THEN [c EXCEPT !.surf[s].cairo_surface = buf]
        ELSE c

widget_get_cairo_surface(c, s, ok) ==
    IF c.surf[s].cairo_surface = NoBuffer
    THEN surface_create_surface(c, s, ok)
    ELSE c

\* widget_redraw runs the application's redraw handlers; an animated
\* widget asks for the next frame from its handler.
widget_redraw(c, s, anim) ==
    IF anim THEN widget_schedule_redraw(c, s) ELSE c

\* A surface_redraw that repaints a surface whose frame callback is
\* outstanding on any request.
surface_redraw_unthrottled(c, s, ok, ub, anim) ==
    LET w == window_of(s)
    IN
    IF ~c.win[w].redraw_needed /\ ~c.surf[s].redraw_needed
    THEN [c |-> c, ret |-> 0]
    ELSE
      LET c1 == IF c.surf[s].frame_cb # "null"
                THEN wl_callback_destroy(c, s, ub) ELSE c
          c2 == widget_get_cairo_surface(c1, s, ok)
      IN  IF c1.status # "ok" THEN [c |-> c1, ret |-> 0]
          ELSE IF c2.surf[s].cairo_surface = NoBuffer
          THEN [c |-> c2, ret |-> -1]
          ELSE LET c3 == [c2 EXCEPT !.cbs[s] = Append(@, "waiting"),
                                    !.surf[s].frame_cb = "live",
                                    !.surf[s].carried = FALSE,
                                    !.surf[s].redraw_needed = FALSE]
               IN  [c |-> widget_redraw(c3, s, anim), ret |-> 0]

surface_redraw(c, s, ok, ub, anim) ==
    LET w == window_of(s)
    IN
    IF ~c.win[w].redraw_needed /\ ~c.surf[s].redraw_needed
    THEN [c |-> c, ret |-> 0]
    ELSE IF c.surf[s].frame_cb # "null" /\ ~c.win[w].redraw_needed
    THEN [c |-> c, ret |-> 0]
    ELSE
      LET c1 == IF c.surf[s].frame_cb # "null"
                THEN wl_callback_destroy(c, s, ub) ELSE c
          c2 == widget_get_cairo_surface(c1, s, ok)
      IN  IF c1.status # "ok" THEN [c |-> c1, ret |-> 0]
          ELSE IF c2.surf[s].cairo_surface = NoBuffer
          THEN [c |-> c2, ret |-> -1]
          ELSE LET c3 == [c2 EXCEPT !.cbs[s] = Append(@, "waiting"),
                                    !.surf[s].frame_cb = "live",
                                    !.surf[s].carried = FALSE,
                                    !.surf[s].redraw_needed = FALSE]
               IN  [c |-> widget_redraw(c3, s, anim), ret |-> 0]

\* frame_callback for the proxy at position i of the surface's proxies.
\* carried records that a redraw of the surface, asked for while the
\* callback was outstanding, is being carried over by this callback.
frame_callback(c, s, i) ==
    IF ~(c.surf[s].frame_cb = "live" /\ i = Len(c.cbs[s]))
    THEN [c EXCEPT !.status = "abort"]
    ELSE LET c1 == [c EXCEPT !.cbs[s] = Front(@),
                             !.surf[s].carried = c.surf[s].redraw_needed,
                             !.surf[s].frame_cb = "null"]
         IN  IF c1.surf[s].redraw_needed \/ c1.win[window_of(s)].redraw_needed
             THEN window_schedule_redraw_task(c1, window_of(s))
             ELSE c1

\* toysurface->swap attaches and commits the buffer and records its size.
surface_flush(c, s) ==
    IF c.surf[s].cairo_surface = NoBuffer THEN c
    ELSE LET sf == c.surf[s]
         IN  [c EXCEPT !.surf[s].server_allocation =
                           buffer_to_surface_size(sf.buffer_transform,
                                                  sf.buffer_scale,
                                                  sf.cairo_surface),
                       !.surf[s].cairo_surface = NoBuffer,
                       !.committed = @ \cup {s}]

RECURSIVE FlushSubs(_, _, _)
FlushSubs(c, w, i) ==
    IF i > Len(subsurface_list(w)) THEN c
    ELSE LET s == subsurface_list(w)[i]
         IN  IF s = main_surface(w)
             THEN FlushSubs(c, w, i + 1)
             ELSE FlushSubs(surface_flush(c, s), w, i + 1)

window_flush(c, w) == surface_flush(FlushSubs(c, w, 1), main_surface(w))

RECURSIVE RedrawSubs(_, _, _, _, _)
RedrawSubs(c, w, i, ok, ub) ==
    IF i > Len(subsurface_list(w)) \/ c.status # "ok" THEN c
    ELSE LET s == subsurface_list(w)[i]
         IN  IF s = main_surface(w)
             THEN RedrawSubs(c, w, i + 1, ok, ub)
             ELSE RedrawSubs(surface_redraw(c, s, ok[s], ub, FALSE).c,
                             w, i + 1, ok, ub)

\* An idle_redraw that resizes while the main surface's frame callback
\* is outstanding.
idle_redraw_unthrottled(c, w, ok, ub, anim) ==
    LET m  == main_surface(w)
        c0 == [c EXCEPT !.win[w].redraw_task_scheduled = FALSE]
        resized == c0.win[w].resize_needed
        c1 == IF resized THEN idle_resize(c0, w) ELSE c0
        r  == surface_redraw(c1, m, ok[m], ub, anim)
        failed == r.ret < 0
        c2 == IF failed THEN r.c ELSE RedrawSubs(r.c, w, 1, ok, ub)
        c3 == window_flush([c2 EXCEPT !.win[w].redraw_needed = FALSE], w)
        c4 == IF resized /\ failed THEN undo_resize(c3, w) ELSE c3
    IN  IF c2.status # "ok"
        THEN [c |-> c2, resized |-> resized, failed |-> failed]
        ELSE [c |-> c4, resized |-> resized, failed |-> failed]

\* The run callback of window->redraw_task.  The result carries what the
\* pass did: whether it resized and whether the main surface failed.
idle_redraw(c, w, ok, ub, anim) ==
    LET m  == main_surface(w)
        c0 == [c EXCEPT !.win[w].redraw_task_scheduled = FALSE]
    IN
    IF c0.win[w].resize_needed /\ c0.surf[m].frame_cb # "null"
    THEN [c |-> c0, resized |-> FALSE, failed |-> FALSE]
    ELSE
      LET resized == c0.win[w].resize_needed
          c1 == IF resized THEN idle_resize(c0, w) ELSE c0
          r  == surface_redraw(c1, m, ok[m], ub, anim)
          failed == r.ret < 0
          c2 == IF failed THEN r.c ELSE RedrawSubs(r.c, w, 1, ok, ub)
          c3 == window_flush([c2 EXCEPT !.win[w].redraw_needed = FALSE], w)
          c4 == IF resized /\ failed THEN undo_resize(c3, w) ELSE c3
      IN  IF c2.status # "ok"
          THEN [c |-> c2, resized |-> resized, failed |-> failed]
          ELSE [c |-> c4, resized |-> resized, failed |-> failed]

-----------------------------------------------------------------------------
(* display_run and the handlers it calls *)

NoLast == [op |-> "none", w |-> "-", resized |-> FALSE, failed |-> FALSE,
           oldest |-> "-", awaiting |-> {}, committed |-> {}, ret |-> "-"]

Step(op) == [NoLast EXCEPT !.op = op]

NewWindow(frame) ==
    [redraw_needed |-> FALSE, redraw_task_scheduled |-> FALSE,
     resize_needed |-> FALSE, pending_allocation |-> Rect(0, 0),
     saved_allocation |-> Rect(0, 0), min_allocation |-> Rect(0, 0),
     fullscreen |-> FALSE, maximized |-> FALSE, frame |-> frame]

NewSurface(t, scale) ==
    [redraw_needed |-> FALSE, frame_cb |-> "null", carried |-> FALSE,
     allocation |-> Rect(0, 0), server_allocation |-> Rect(0, 0),
     cairo_surface |-> NoBuffer,
     buffer_transform |-> t, buffer_scale |-> scale]

\* window_add_subsurface, as called while the window is set up.
window_add_subsurface(c, w) ==
    window_schedule_redraw([c EXCEPT !.win[w].resize_needed = TRUE], w)

Created(t, scale) ==
    [win  |-> [w \in Windows |-> NewWindow(w = "w2")],
     surf |-> [s \in Surfaces |->
                  IF s = "m1" THEN NewSurface(t, scale)
                  ELSE NewSurface("normal", 1)],
     cbs  |-> [s \in Surfaces |-> <<>>],
     deferred_list |-> <<>>, defer_order |-> <<>>,
     running |-> FALSE, status |-> "ok", committed |-> {}]

Store(c, newpc) ==
    /\ win' = c.win
    /\ surf' = c.surf
    /\ cbs' = c.cbs
    /\ deferred_list' = c.deferred_list
    /\ defer_order' = c.defer_order
    /\ running' = c.running
    /\ pc' = IF c.status = "ok" THEN newpc ELSE c.status

LoopInit(e, wl, geometries) ==
    /\ pc = "init"
    /\ env = e
    /\ window_list = wl
    /\ epoll_out = FALSE
    /\ display_fd_events = {}
    /\ hist = [hup_seen |-> FALSE, io_after_hup |-> FALSE]
    /\ last = NoLast
    /\ \E b \in geometries :
         LET t == b[1]
             scale == b[2]
             c == window_add_subsurface(Created(t, scale), "w1")
         IN  /\ win = c.win
             /\ surf = c.surf
             /\ cbs = c.cbs
             /\ deferred_list = c.deferred_list
             /\ defer_order = c.defer_order
             /\ running = c.running

\* The application, before it enters display_run.
AppScheduleResize ==
    /\ pc = "init"
    /\ \E w \in Live : \E width \in Widths(w), height \in Heights :
         /\ Store(window_schedule_resize(Bundle, w, width, height), "init")
         /\ last' = Step("window_schedule_resize")
    /\ UNCHANGED <<epoll_out, display_fd_events, hist, window_list, env>>

AppExit ==
    /\ pc = "init"
    /\ Store(display_exit(Bundle), "init")
    /\ last' = Step("display_exit")
    /\ UNCHANGED <<epoll_out, display_fd_events, hist, window_list, env>>

DisplayRun ==
    /\ pc = "init"
    /\ Store([Bundle EXCEPT !.running = TRUE], "drain")
    /\ last' = Step("display_run")
    /\ UNCHANGED <<epoll_out, display_fd_events, hist, window_list, env>>

\* deferred_list.prev: the entry at the tail.
deferred_prev(list) == Len(list)

RemoveAt(q, i) == SubSeq(q, 1, i - 1) \o SubSeq(q, i + 1, Len(q))

RECURSIVE IndexOf(_, _, _)
IndexOf(q, x, i) ==
    IF i > Len(q) THEN 0 ELSE IF q[i] = x THEN i ELSE IndexOf(q, x, i + 1)

\* A buffer swap of the EGL backend reads the connection and leaves the
\* events it finds in the default queue.
ReadEvents(c) ==
    [c EXCEPT !.cbs = [s \in Surfaces |->
        [i \in 1..Len(@[s]) |-> IF @[s][i] = "wire" THEN "queued"
                                 ELSE @[s][i]]]]

\* The outcomes of acquiring a backing store that matter to a pass on
\* window w: those of the surfaces of w.
Acquire(w) == {ok \in [Surfaces -> BOOLEAN] :
                 \A s \in Surfaces :
                    (window_of(s) # w \/ ~env.faulty) => ok[s]}

\* The outcomes of destroying a destroyed proxy, where a pass on window w
\* can do so.
Undefined(w) ==
    IF \E s \in Surfaces : window_of(s) = w /\ surf[s].frame_cb = "dangling"
    THEN {"noop", "crash"} \cup Surfaces
    ELSE {"noop"}

\* Whether a swap reads the connection; it matters when a done is on
\* the wire.
SwapReads ==
    IF \E s \in Surfaces, i \in 1..2 : i <= Len(cbs[s]) /\ cbs[s][i] = "wire"
    THEN BOOLEAN ELSE {FALSE}

\* One round of the drain loop: unlink the tail task and run it.
RunDeferred ==
    /\ pc = "drain"
    /\ deferred_list # <<>>
    /\ deferred_list[deferred_prev(deferred_list)] \in Windows
    /\ LET i    == deferred_prev(deferred_list)
           task == deferred_list[i]
           k    == IndexOf(defer_order, task, 1)
           c0   == [Bundle EXCEPT
                      !.deferred_list = RemoveAt(@, i),
                      !.defer_order = IF k = 0 THEN @ ELSE RemoveAt(@, k)]
       IN  \E ok \in Acquire(task), ub \in Undefined(task),
              anim \in {FALSE, env.anim}, egl \in SwapReads :
             LET r  == idle_redraw(c0, task, ok, ub, anim)
                 c1 == IF egl /\ r.c.committed # {}
                       THEN ReadEvents(r.c) ELSE r.c
             IN  /\ Store(c1, "drain")
                 /\ last' = [Step("idle_redraw") EXCEPT
                               !.w = task, !.resized = r.resized,
                               !.failed = r.failed,
                               !.oldest = IF defer_order = <<>> THEN "-"
                                          ELSE Head(defer_order),
                               !.awaiting = {s \in Surfaces :
                                   window_of(s) = task
                                   /\ surf[s].frame_cb # "null"},
                               !.committed = r.c.committed]
    /\ UNCHANGED <<epoll_out, display_fd_events, hist, window_list, env>>

\* A drain loop that runs a bounded number of tasks and goes on.
DrainDone_bounded ==
    /\ pc = "drain"
    /\ pc' = "pending"
    /\ last' = Step("drained")
    /\ UNCHANGED <<running, deferred_list, epoll_out, display_fd_events,
                   win, surf, cbs, defer_order, hist, window_list, env>>

DrainDone ==
    /\ pc = "drain"
    /\ deferred_list = <<>>
    /\ pc' = "pending"
    /\ last' = Step("drained")
    /\ UNCHANGED <<running, deferred_list, epoll_out, display_fd_events,
                   win, surf, cbs, defer_order, hist, window_list, env>>

\* window_close without a close handler.
window_close(c) == display_exit(c)

Queued == {x \in Surfaces \X (1..2) :
              x[2] <= Len(cbs[x[1]]) /\ cbs[x[1]][x[2]] = "queued"}

\* wl_display_dispatch_pending: one queued event is delivered.  The read
\* that left a frame callback's done in the queue can have left any other
\* event of the connection with it, such as the close of a window.
DispatchPending ==
    /\ pc = "pending"
    /\ \/ \E x \in Queued :
            /\ Store(frame_callback(Bundle, x[1], x[2]), "pending")
            /\ last' = Step("pending_frame_callback")
       \/ /\ Queued # {} \/ last.op = "pending_frame_callback"
          /\ Store(window_close(Bundle), "pending")
          /\ last' = Step("pending_window_close")
    /\ UNCHANGED <<epoll_out, display_fd_events, hist, window_list, env>>

PendingDone ==
    /\ pc = "pending"
    /\ Queued = {}
    /\ pc' = "check"
    /\ last' = Step("dispatched_pending")
    /\ UNCHANGED <<running, deferred_list, epoll_out, display_fd_events,
                   win, surf, cbs, defer_order, hist, window_list, env>>

ExitCheck ==
    /\ pc = "check"
    /\ pc' = IF ~running THEN "returned" ELSE "flush"
    /\ last' = Step("exit_check")
    /\ UNCHANGED <<running, deferred_list, epoll_out, display_fd_events,
                   win, surf, cbs, defer_order, hist, window_list, env>>

\* wl_display_flush in display_run; ret is "ok", "eagain" or "error".
display_run_flush(ret) ==
    /\ epoll_out' = IF ret = "eagain" THEN TRUE ELSE epoll_out
    /\ pc' = IF ret = "error" THEN "returned" ELSE "wait"
    /\ running' = running

Flush ==
    /\ pc = "flush"
    /\ \E ret \in {"ok", "eagain", "error"} :
         /\ display_run_flush(ret)
         /\ last' = [Step("flush") EXCEPT !.ret = ret]
    /\ hist' = [hist EXCEPT !.io_after_hup = @ \/ hist.hup_seen]
    /\ UNCHANGED <<deferred_list, display_fd_events,
                   win, surf, cbs, defer_order, window_list, env>>

Masks == {{"in"}, {"in", "out"}, {"out"}, {"in", "hup"}, {"err"}}

\* A handle_display_data that looks at EPOLLIN and EPOLLOUT before the
\* error bits.
handle_display_data_late_hup(events, dret) ==
    IF "in" \in events /\ dret = "error"
    THEN [exit |-> TRUE, dispatched |-> TRUE, flush |-> FALSE]
    ELSE [exit |-> "err" \in events \/ "hup" \in events,
          dispatched |-> "in" \in events, flush |-> "out" \in events]

\* handle_display_data up to the end of its read-dispatch: whether it
\* requests exit, whether it called wl_display_dispatch (dret is that
\* call's result) and whether it goes on to the EPOLLOUT part.
handle_display_data(events, dret) ==
    IF "err" \in events \/ "hup" \in events
    THEN [exit |-> TRUE, dispatched |-> FALSE, flush |-> FALSE]
    ELSE IF "in" \in events /\ dret = "error"
    THEN [exit |-> TRUE, dispatched |-> TRUE, flush |-> FALSE]
    ELSE [exit |-> FALSE, dispatched |-> "in" \in events,
          flush |-> "out" \in events]

\* epoll_wait returns with nothing (interrupted), or with the display
\* descriptor ready, and display_run calls its task.
EpollWait ==
    /\ pc = "wait"
    /\ \/ /\ pc' = "drain"
          /\ last' = Step("epoll_wait")
          /\ UNCHANGED <<running, display_fd_events, cbs, hist>>
       \/ \E events \in Masks, dret \in {"ok", "error"} :
            LET h == handle_display_data(events, dret)
                errhup == "err" \in events \/ "hup" \in events
            IN  /\ ("out" \in events => epoll_out)
                /\ ("in" \notin events => dret = "ok")
                /\ display_fd_events' = events
                /\ running' = IF h.exit THEN FALSE ELSE running
                /\ cbs' = IF h.dispatched /\ dret = "ok"
                          THEN ReadEvents(Bundle).cbs ELSE cbs
                /\ pc' = IF h.exit /\ ~(h.dispatched /\ dret = "ok")
                         THEN "drain" ELSE "dispatch"
                /\ hist' = [hup_seen |-> hist.hup_seen \/ errhup,
                            io_after_hup |-> hist.io_after_hup
                               \/ ((hist.hup_seen \/ errhup)
                                   /\ (h.dispatched \/ h.flush))]
                /\ last' = Step("handle_display_data")
    /\ UNCHANGED <<deferred_list, epoll_out, win, surf, defer_order,
                   window_list, env>>

\* One event delivered by wl_display_dispatch to its listener: a frame
\* callback, or an input or shell event whose handler asks for a redraw,
\* a resize or the end of the program.
DispatchEvent ==
    /\ pc = "dispatch"
    /\ \/ \E x \in Queued :
            /\ Store(frame_callback(Bundle, x[1], x[2]), "dispatch")
            /\ last' = Step("frame_callback")
       \/ \E s \in LiveSurface :
            /\ Store(widget_schedule_redraw(Bundle, s), "dispatch")
            /\ last' = Step("widget_schedule_redraw")
       \/ \E w \in Live :
            /\ Store(window_schedule_redraw(Bundle, w), "dispatch")
            /\ last' = Step("window_schedule_redraw")
       \/ \E w \in Live : \E width \in Widths(w), height \in Heights :
            /\ Store(window_schedule_resize(Bundle, w, width, height),
                     "dispatch")
            /\ last' = Step("window_schedule_resize")
       \/ /\ Store(window_close(Bundle), "dispatch")
          /\ last' = Step("window_close")
    /\ UNCHANGED <<epoll_out, display_fd_events, hist, window_list, env>>

\* The EPOLLOUT part of handle_display_data; ret is the flush's result:
\* "ok" is 0 (nothing was left to send), "sent" a positive count of bytes.
handle_display_data_out(events, ret) ==
    IF "out" \notin events \/ "err" \in events \/ "hup" \in events
    THEN [exit |-> FALSE, out |-> epoll_out]
    ELSE IF ret = "ok" THEN [exit |-> FALSE, out |-> FALSE]
    ELSE IF ret = "error" THEN [exit |-> TRUE, out |-> epoll_out]
    ELSE [exit |-> FALSE, out |-> epoll_out]

DispatchDone ==
    /\ pc = "dispatch"
    /\ Queued = {}
    /\ \E ret \in {"ok", "sent", "eagain", "error"} :
         LET h == handle_display_data_out(display_fd_events, ret)
         IN  /\ ("out" \notin display_fd_events => ret = "ok")
             /\ running' = IF h.exit THEN FALSE ELSE running
             /\ epoll_out' = h.out
             /\ last' = [Step("handle_display_data_done") EXCEPT !.ret = ret]
    /\ pc' = "drain"
    /\ UNCHANGED <<deferred_list, display_fd_events, win, surf, cbs,
                   defer_order, hist, window_list, env>>

\* The compositor presents a committed frame and sends the callback's done.
ServerFrameDone ==
    /\ pc \in {"drain", "wait"}
    /\ \E s \in Surfaces, i \in 1..2 :
         /\ i <= Len(cbs[s])
         /\ cbs[s][i] = "waiting"
         /\ cbs' = [cbs EXCEPT ![s][i] = "wire"]
    /\ last' = Step("server_frame_done")
    /\ UNCHANGED <<pc, running, deferred_list, epoll_out, display_fd_events,
                   win, surf, defer_order, hist, window_list, env>>

LoopNext ==
    \/ AppScheduleResize
    \/ AppExit
    \/ DisplayRun
    \/ RunDeferred
    \/ DrainDone
    \/ DispatchPending
    \/ PendingDone
    \/ ExitCheck
    \/ Flush
    \/ EpollWait
    \/ DispatchEvent
    \/ DispatchDone
    \/ ServerFrameDone

-----------------------------------------------------------------------------
(* Data offers (client side) *)

MaxFd     == 3      \* descriptors the process can have open
MaxChunks == 1      \* chunks the far side writes into one pipe
chunk_size == 4096  \* sizeof buffer in offer_io_func

\* An unsigned int as two 16-bit limbs <<high, low>>: the conversion of a
\* ssize_t to the unsigned len of offer_io_func, modulo 2^32.
Unsigned(r) ==
    IF r >= 0 THEN <<r \div 65536, r % 65536>>
    ELSE <<65535, 65536 + r>>

Offers == {"o1", "o2"}
Mimes  == {"text", "uri"}
Fds    == 1..MaxFd

ClosedFd == [open |-> FALSE, watch |-> "-", data |-> 0, wopen |-> FALSE,
             owner |-> "-"]

\* The MIME types the compositor advertises for each offer.
Types(o) == IF o = "o1" THEN <<"text", "uri">> ELSE <<"text">>

NoOffer == [state |-> "none", refcount |-> 0, fd |-> -1, func |-> "-",
            types |-> <<>>, frees |-> 0, asked |-> {}, overlap |-> FALSE]

NoOLast == [op |-> "none", o |-> "-", ready |-> 0, fd |-> 0, len |-> <<0, 0>>,
            sink |-> "-"]

OStep(op, o) == [NoOLast EXCEPT !.op = op, !.o = o]

\* The offer bundle the handlers work on.
OBundle == [offer |-> offer, fds |-> fds, input |-> input, dead |-> FALSE]

\* A handler touches the memory of an offer that has been freed.
UseAfterFree(b) == [b EXCEPT !.dead = TRUE]

\* close(fd): the number becomes free and leaves the epoll set.
close(b, fd) ==
    IF fd \in Fds /\ b.fds[fd].open
    THEN [b EXCEPT !.fds[fd] = ClosedFd]
    ELSE b

data_offer_destroy(b, o) ==
    LET b1 == [b EXCEPT !.offer[o].refcount = @ - 1]
    IN  IF b.offer[o].state # "alive" THEN UseAfterFree(b)
        ELSE IF b1.offer[o].refcount = 0
        THEN [b1 EXCEPT !.offer[o].state = "freed",
                        !.offer[o].frees = @ + 1]
        ELSE b1

data_device_data_offer(b, o) ==
    [b EXCEPT !.offer[o] = [NoOffer EXCEPT !.state = "alive",
                                            !.refcount = 1]]

data_offer_offer(b, o, type) ==
    [b EXCEPT !.offer[o].types = Append(@, type)]

data_device_enter(b, o) == [b EXCEPT !.input.drag_offer = o]

data_device_leave(b) ==
    IF b.input.drag_offer # "NULL"
    THEN [data_offer_destroy(b, b.input.drag_offer)
             EXCEPT !.input.drag_offer = "NULL"]
    ELSE b

data_device_selection(b, o) ==
    LET b1 == IF b.input.selection_offer # "NULL"
              THEN data_offer_destroy(b, b.input.selection_offer)
              ELSE b
    IN  [b1 EXCEPT !.input.selection_offer = o]

FreeFds(b) == {f \in Fds : ~b.fds[f].open}

Lowest(S) == CHOOSE f \in S : \A g \in S : f <= g

\* A read of the offer is in flight: a pipe made for it is still open.
InFlight(b, o) == \E f \in Fds : b.fds[f].open /\ b.fds[f].owner = o

\* data_offer_receive_data; pipe_ok is the outcome of pipe2, which also
\* fails when fewer than two descriptors are free.
\* A receive that takes its reference before it makes the pipe.
data_offer_receive_data_early_ref(b, o, mime_type, func, pipe_ok) ==
    IF ~pipe_ok \/ Cardinality(FreeFds(b)) < 2
    THEN [b EXCEPT !.offer[o].refcount = @ + 1]
    ELSE IF b.offer[o].state # "alive" THEN UseAfterFree(b)
    ELSE LET p0 == Lowest(FreeFds(b))
         IN  [b EXCEPT
                !.fds[p0] = [open |-> TRUE, watch |-> o, data |-> 0,
                             wopen |-> TRUE, owner |-> o],
                !.offer[o].fd = p0,
                !.offer[o].func = func,
                !.offer[o].refcount = @ + 1,
                !.offer[o].asked = @ \cup {mime_type},
                !.offer[o].overlap = @ \/ InFlight(b, o)]

data_offer_receive_data(b, o, mime_type, func, pipe_ok) ==
    IF ~pipe_ok \/ Cardinality(FreeFds(b)) < 2
    THEN b
    ELSE IF b.offer[o].state # "alive" THEN UseAfterFree(b)
    ELSE LET p0 == Lowest(FreeFds(b))
         IN  [b EXCEPT
                !.fds[p0] = [open |-> TRUE, watch |-> o, data |-> 0,
                             wopen |-> TRUE, owner |-> o],
                !.offer[o].fd = p0,
                !.offer[o].func = func,
                !.offer[o].refcount = @ + 1,
                !.offer[o].asked = @ \cup {mime_type},
                !.offer[o].overlap = @ \/ InFlight(b, o)]

input_receive_drag_data(b, mime_type, func, pipe_ok) ==
    data_offer_receive_data(b, b.input.drag_offer, mime_type, func, pipe_ok)

input_receive_selection_data(b, mime_type, func, pipe_ok) ==
    LET o == b.input.selection_offer
    IN  IF o = "NULL" THEN b
        ELSE IF b.offer[o].state # "alive" THEN UseAfterFree(b)
        ELSE IF mime_type \notin SeqToSet(b.offer[o].types) THEN b
        ELSE data_offer_receive_data(b, o, mime_type, func, pipe_ok)

\* read() on an empty pipe that is still open for writing blocks.
WouldBlock(b, fd) ==
    fd \in Fds /\ b.fds[fd].open /\ b.fds[fd].data = 0 /\ b.fds[fd].wopen

\* What read(offer->fd, buffer, sizeof buffer) returns when it returns:
\* -1 on a descriptor that is not open, n bytes of a chunk, 0 at the end.
read(b, fd, n) ==
    IF ~(fd \in Fds /\ b.fds[fd].open) THEN -1
    ELSE IF b.fds[fd].data > 0 THEN n
    ELSE 0

\* offer_io_func once its read has returned r.
offer_io_func(b, o, r) ==
    LET fd == b.offer[o].fd
        len == Unsigned(r)
        b1 == IF r > 0
              THEN [b EXCEPT !.fds[fd].data = @ - 1] ELSE b
    IN  IF len = <<0, 0>>
        THEN data_offer_destroy(close(b1, fd), o)
        ELSE b1

OStore(b) ==
    /\ offer' = b.offer
    /\ fds' = b.fds
    /\ input' = b.input
    /\ blocked' = IF b.dead THEN "dead" ELSE "-"

OfferInit ==
    /\ offer = [o \in Offers |-> NoOffer]
    /\ fds = [f \in Fds |-> ClosedFd]
    /\ input = [drag_offer |-> "NULL", selection_offer |-> "NULL",
                dragging |-> FALSE]
    /\ blocked = "-"
    /\ olast = NoOLast

Fresh(o) == offer[o].state = "alive" /\ offer[o].refcount = 1
            /\ o # input.drag_offer /\ o # input.selection_offer
            /\ offer[o].asked = {}

\* The compositor introduces an offer and advertises its types.
DataOffer ==
    /\ blocked = "-"
    /\ \E o \in Offers :
         /\ offer[o].state = "none"
         /\ (o = "o2" => offer["o1"].state # "none")
         /\ \A x \in Offers : ~Fresh(x)
         /\ LET types == Types(o)
                 b1 == data_device_data_offer(OBundle, o)
                 b2 == data_offer_offer(b1, o, types[1])
                 b3 == IF Len(types) > 1
                       THEN data_offer_offer(b2, o, types[2]) ELSE b2
             IN  OStore(b3)
         /\ olast' = NoOLast

Enter ==
    /\ blocked = "-"
    /\ ~input.dragging
    /\ \E o \in Offers \cup {"NULL"} :
         /\ o # "NULL" => Fresh(o)
         /\ OStore([data_device_enter(OBundle, o)
                       EXCEPT !.input.dragging = TRUE])
         /\ olast' = NoOLast

Leave ==
    /\ blocked = "-"
    /\ input.dragging
    /\ OStore([data_device_leave(OBundle) EXCEPT !.input.dragging = FALSE])
    /\ olast' = NoOLast

Selection ==
    /\ blocked = "-"
    /\ \E o \in Offers \cup {"NULL"} :
         /\ o # "NULL" => Fresh(o)
         /\ o = "NULL" => input.selection_offer # "NULL"
         /\ OStore(data_device_selection(OBundle, o))
         /\ olast' = NoOLast

\* pipe2 fails when the system says so or descriptors have run out.
PipeFails(pipe_ok) == ~pipe_ok \/ Cardinality(FreeFds(OBundle)) < 2

\* The application asks for the data of the drag offer or of the selection.
ReceiveDrag ==
    /\ blocked = "-"
    /\ input.drag_offer # "NULL"
    /\ \E mime \in Mimes \ offer[input.drag_offer].asked,
          pipe_ok \in BOOLEAN :
         /\ OStore(input_receive_drag_data(OBundle, mime, mime, pipe_ok))
         /\ olast' = IF PipeFails(pipe_ok)
                     THEN OStep("receive_failed", input.drag_offer)
                     ELSE NoOLast

ReceiveSelection ==
    /\ blocked = "-"
    /\ \E mime \in Mimes, pipe_ok \in BOOLEAN :
         /\ input.selection_offer # "NULL"
              => mime \notin offer[input.selection_offer].asked
         /\ OStore(input_receive_selection_data(OBundle, mime, mime,
                                                pipe_ok))
         /\ olast' = IF /\ input.selection_offer # "NULL"
                        /\ offer[input.selection_offer].state = "alive"
                        /\ mime \in SeqToSet(
                                        offer[input.selection_offer].types)
                        /\ PipeFails(pipe_ok)
                     THEN OStep("receive_failed", input.selection_offer)
                     ELSE NoOLast

\* The far side writes a chunk into a pipe it was handed, or closes it.
FarWrite ==
    /\ \E f \in Fds :
         /\ fds[f].open /\ fds[f].wopen
         /\ fds[f].data < MaxChunks
         /\ fds' = [fds EXCEPT ![f].data = @ + 1]
    /\ olast' = NoOLast
    /\ UNCHANGED <<offer, input, blocked>>

FarClose ==
    /\ \E f \in Fds :
         /\ fds[f].open /\ fds[f].wopen
         /\ fds' = [fds EXCEPT ![f].wopen = FALSE]
    /\ olast' = NoOLast
    /\ UNCHANGED <<offer, input, blocked>>

Ready(f) == fds[f].open /\ fds[f].watch # "-"
            /\ (fds[f].data > 0 \/ ~fds[f].wopen)

\* epoll_wait reports a watched pipe and display_run calls its task; a
\* task whose offer was freed is a use after free and ends the model.
IoTask ==
    /\ blocked = "-"
    /\ \E f \in Fds, n \in {1, chunk_size} :
         LET o == fds[f].watch IN
         /\ Ready(f)
         /\ IF offer[o].state # "alive"
            THEN /\ olast' = [OStep("use_after_free", o) EXCEPT !.ready = f]
                 /\ blocked' = "dead"
                 /\ UNCHANGED <<offer, fds, input>>
            ELSE LET r == read(OBundle, offer[o].fd, n) IN
                 IF WouldBlock(OBundle, offer[o].fd)
                 THEN /\ n = 1
                      /\ blocked' = o
                      /\ olast' = [OStep("blocked", o) EXCEPT !.ready = f,
                                      !.fd = offer[o].fd]
                      /\ UNCHANGED <<offer, fds, input>>
                 ELSE /\ (r <= 0 => n = 1)
                      /\ OStore(offer_io_func(OBundle, o, r))
                      /\ olast' = [op |-> "offer_io_func", o |-> o,
                                   ready |-> f, fd |-> offer[o].fd,
                                   len |-> Unsigned(r),
                                   sink |-> offer[o].func]

\* A blocked read returns when the far side has written or closed.
Unblock ==
    /\ blocked \in Offers
    /\ \E n \in {1, chunk_size} :
         LET o == blocked
             r == read(OBundle, offer[o].fd, n) IN
         /\ ~WouldBlock(OBundle, offer[o].fd)
         /\ (r <= 0 => n = 1)
         /\ OStore(offer_io_func(OBundle, o, r))
         /\ olast' = [op |-> "offer_io_func", o |-> o, ready |-> 0,
                      fd |-> offer[o].fd, len |-> Unsigned(r),
                      sink |-> offer[o].func]

OfferNext ==
    \/ DataOffer
    \/ Enter
    \/ Leave
    \/ Selection
    \/ ReceiveDrag
    \/ ReceiveSelection
    \/ FarWrite
    \/ FarClose
    \/ IoTask
    \/ Unblock

-----------------------------------------------------------------------------
(* The primary selection of a seat (compositor side) *)

MaxDevices == 2     \* device resources on the seat's list

Clients == {"c1", "c2"}
Sources == {"A", "B"}
Variants == {"primary-selection.c", "part_000"}

\* The types a source has offered when it is used.
mime_types(x) == IF x = "A" THEN <<"text", "html">> ELSE <<"uri">>

NoSource == [state |-> "none", client |-> "-", cancelled |-> FALSE]

NoSLast == [op |-> "none", source |-> "-", prev |-> "-", applied |-> FALSE,
            trace |-> <<>>, events |-> <<>>, emitted |-> 0, used |-> {}]

\* The seat bundle the handlers work on, with what the step did so far.
SBundle == [seat |-> seat, sources |-> sources, trace |-> <<>>,
            events |-> <<>>, emitted |-> 0, used |-> {}]

Did(k, what) == [k EXCEPT !.trace = Append(@, what)]

Sent(k, event) == [k EXCEPT !.events = Append(@, event)]

Crashed(k) == [k EXCEPT !.seat.status = "crash"]

\* wl_resource_find_for_client on the seat's device list.
wl_resource_find_for_client(list, client) ==
    IF \E i \in 1..Len(list) : list[i] = client THEN client ELSE "NULL"

client_source_cancel_skip(k, source) == k

client_source_cancel(k, source) ==
    Did(Sent([k EXCEPT !.sources[source].cancelled = TRUE,
                       !.used = @ \cup {source}],
             <<"cancelled", source>>), "cancel")

\* wl_list_remove of the seat's listener from the list it is linked in.
RemoveListener(k) ==
    Did([k EXCEPT !.used = @ \cup ({k.seat.listener} \cap Sources),
                  !.seat.listener = "-"], "remove")

\* wl_signal_add of the seat's listener to the source's destroy signal.
AddListener(k, source) ==
    Did([k EXCEPT !.seat.listener = source,
                  !.used = @ \cup {source}], "add")

\* An install that does not link the seat's listener to the new source.
Install_unlistened(k, source) ==
    Did([k EXCEPT !.seat.primary_selection_data_source = source], "install")

Install(k, source) ==
    LET k1 == Did([k EXCEPT !.seat.primary_selection_data_source = source],
                  "install")
    IN  IF source # "NULL" THEN AddListener(k1, source) ELSE k1

\* primary-selection.c
set_primary_selection_src(k, source) ==
    LET current_source == k.seat.primary_selection_data_source
        k1 == IF current_source # "NULL"
              THEN RemoveListener(client_source_cancel(k, current_source))
              ELSE k
    IN  Install(k1, source)

\* part_000: the owner of the replaced source is told of the change.
set_primary_selection_part(k, source) ==
    LET current_source == k.seat.primary_selection_data_source
    IN  IF current_source = "NULL" THEN Install(k, source)
        ELSE LET old_owner == k.sources[current_source].client
                 resource == wl_resource_find_for_client(
                                 k.seat.devices, old_owner)
                 k1 == client_source_cancel(k, current_source)
             IN  IF source = "NULL" THEN Crashed(k1)
                 ELSE IF old_owner # k1.sources[source].client
                 THEN IF resource = "NULL" THEN Crashed(k1)
                      ELSE Install(RemoveListener(
                               Did(Sent([k1 EXCEPT !.used = @ \cup {source}],
                                        <<"selection_changed", resource>>),
                                   "changed")), source)
                 ELSE Install(RemoveListener(
                          [k1 EXCEPT !.used = @ \cup {source}]), source)

weston_seat_set_primary_selection(k, source) ==
    IF k.seat.variant = "part_000"
    THEN set_primary_selection_part(k, source)
    ELSE set_primary_selection_src(k, source)

\* A NULL focus_client is dereferenced by the focus test.
weston_primary_selection_device_set_selection(k, client, source) ==
    IF k.seat.focus = "NULL" THEN Crashed(k)
    ELSE IF k.seat.focus # client THEN k
    ELSE weston_seat_set_primary_selection(k, source)

destroy_primary_selection_data_source_keep(k) ==
    [k EXCEPT !.emitted = @ + 1]

destroy_primary_selection_data_source(k) ==
    [k EXCEPT !.seat.primary_selection_data_source = "NULL",
              !.emitted = @ + 1]

\* A destruction that runs the seat's listener for any source.
weston_data_source_destroy_any(k, source) ==
    [destroy_primary_selection_data_source(k)
        EXCEPT !.sources[source].state = "destroyed"]

\* The source object is destroyed: its destroy signal runs the listeners
\* linked in it, then the memory is released.
weston_data_source_destroy(k, source) ==
    LET k1 == IF k.seat.listener = source
              THEN destroy_primary_selection_data_source(k)
              ELSE k
    IN  [k1 EXCEPT !.sources[source].state = "destroyed"]

create_primary_selection_source(k, client, x) ==
    [k EXCEPT !.sources[x] = [state |-> "alive", client |-> client,
                              cancelled |-> FALSE]]

get_primary_selection_device(k, client) ==
    [k EXCEPT !.seat.devices = <<client>> \o @]

RemoveFirst(list, client) ==
    LET i == CHOOSE j \in 1..Len(list) :
                 list[j] = client /\ \A h \in 1..(j - 1) : list[h] # client
    IN  SubSeq(list, 1, i - 1) \o SubSeq(list, i + 1, Len(list))

unbind_primary_selection_device(k, client) ==
    [k EXCEPT !.seat.devices = RemoveFirst(@, client)]

\* The destroy request removes the link and then destroys the resource,
\* whose destructor removes the link once more: what the second removal
\* does is undefined (ub is what the build makes of it).
weston_primary_selection_device_destroy(k, client, ub) ==
    LET k1 == unbind_primary_selection_device(k, client)
    IN  IF ub = "crash" THEN Crashed(k1) ELSE k1

\* wl_array_for_each over the source's types, from the i-th on.
RECURSIVE AdvertiseFrom(_, _, _)
AdvertiseFrom(k, types, i) ==
    IF i > Len(types) THEN k
    ELSE AdvertiseFrom(Sent(k, <<"offer", types[i]>>), types, i + 1)

\* An offer that is announced with the first of the source's types only.
send_offer_first_type(k, source, target, offer_ok) ==
    IF ~offer_ok THEN Did(k, "no_offer")
    ELSE AdvertiseFrom(
             Sent(Did([k EXCEPT !.used = @ \cup {source}], "offer"),
                  <<"selection_offer", target, source>>),
             SubSeq(mime_types(source), 1, 1), 1)

\* offer_ok is whether weston_data_offer_create returned an offer.
weston_primary_selection_source_send_offer(k, source, target, offer_ok) ==
    IF ~offer_ok THEN Did(k, "no_offer")
    ELSE AdvertiseFrom(
             Sent(Did([k EXCEPT !.used = @ \cup {source}], "offer"),
                  <<"selection_offer", target, source>>),
             mime_types(source), 1)

middle_click_paste(k, offer_ok) ==
    LET source == k.seat.primary_selection_data_source
    IN  IF k.seat.focus = "NULL" \/ source = "NULL" THEN k
        ELSE LET resource == wl_resource_find_for_client(
                                 k.seat.devices, k.seat.focus)
             IN  IF resource = "NULL" THEN k
                 ELSE weston_primary_selection_source_send_offer(
                          k, source, resource, offer_ok)

SStore(k, op, source) ==
    /\ seat' = k.seat
    /\ sources' = k.sources
    /\ slast' = [op |-> op, source |-> source,
                 prev |-> seat.primary_selection_data_source,
                 applied |-> k.seat.status = "ok" /\ k.trace # <<>>,
                 trace |-> k.trace, events |-> k.events,
                 emitted |-> k.emitted, used |-> k.used]

SeatInitOf(variants) ==
    /\ seat \in [variant : variants,
                 primary_selection_data_source : {"NULL"},
                 listener : {"-"}, focus : {"NULL"}, devices : {<<>>},
                 status : {"ok"}]
    /\ sources = [x \in Sources |-> NoSource]
    /\ slast = NoSLast

SeatInit == SeatInitOf({"primary-selection.c"})

CreateSource ==
    /\ seat.status = "ok"
    /\ \E client \in Clients, x \in Sources :
         /\ sources[x].state = "none"
         /\ (x = "B" => sources["A"].state # "none")
         /\ SStore(create_primary_selection_source(SBundle, client, x),
                   "create", x)

GetDevice ==
    /\ seat.status = "ok"
    /\ Len(seat.devices) < MaxDevices
    /\ \E client \in Clients :
         SStore(get_primary_selection_device(SBundle, client), "device", "-")

DeviceDestroy ==
    /\ seat.status = "ok"
    /\ seat.variant = "primary-selection.c"
    /\ \E client \in SeqToSet(seat.devices), ub \in {"removed", "crash"} :
         SStore(weston_primary_selection_device_destroy(SBundle, client, ub),
                "device_destroy", "-")

PointerFocus ==
    /\ seat.status = "ok"
    /\ \E client \in Clients \cup {"NULL"} :
         /\ client # seat.focus
         /\ SStore([SBundle EXCEPT !.seat.focus = client], "focus", "-")

\* A client asks, through one of its devices, to set one of its sources.
SetSelection ==
    /\ seat.status = "ok"
    /\ \E client \in SeqToSet(seat.devices), x \in Sources :
         /\ sources[x].state = "alive"
         /\ sources[x].client = client
         /\ SStore(weston_primary_selection_device_set_selection(
                       SBundle, client, x), "set_selection", x)

SourceDestroy ==
    /\ seat.status = "ok"
    /\ \E x \in Sources :
         /\ sources[x].state = "alive"
         /\ SStore(weston_data_source_destroy(SBundle, x),
                   "source_destroy", x)

Paste ==
    /\ seat.status = "ok"
    /\ \E offer_ok \in BOOLEAN :
         SStore(middle_click_paste(SBundle, offer_ok), "paste", "-")

SeatNext ==
    \/ CreateSource
    \/ GetDevice
    \/ DeviceDestroy
    \/ PointerFocus
    \/ SetSelection
    \/ SourceDestroy
    \/ Paste

-----------------------------------------------------------------------------
\* ------------------------------------------------------------------
\* Secondary descriptors of the toolkit: the tooltip timer of a
\* widget and the key-repeat timer of an input, as display_run sees
\* them in one batch of epoll_wait
\* ------------------------------------------------------------------

MaxTooltipCount == 2

Tasks == {"display", "tooltip", "repeat", "cursor"}

\* struct widget (the tooltip's parent) with its struct tooltip flattened in:
\* fd is tooltip->tooltip_fd ("none" without tooltip, "bad" when
\* timerfd_create failed), armed / expired the state of that timerfd,
\* widget whether tooltip->widget is shown
NoTooltip ==
    [tooltip |-> "NULL", tooltip_count |-> 0, fd |-> "none",
     armed |-> FALSE, expired |-> FALSE, widget |-> FALSE]

\* timerfd_settime with a value: the timer is armed and the count of
\* expirations not yet read is reset; fails on an invalid descriptor
tooltip_timer_reset(p) ==
    IF p.fd = "open" THEN [p EXCEPT !.armed = TRUE, !.expired = FALSE]
    ELSE p

\* malloc_ok, fd_ok: outcomes of malloc and of timerfd_create.  The timer
\* descriptor is created with TFD_CLOEXEC only: reads on it block
widget_set_tooltip(p, malloc_ok, fd_ok) ==
    LET q == [p EXCEPT !.tooltip_count = @ + 1] IN
    IF p.tooltip # "NULL" THEN tooltip_timer_reset(q)
    ELSE IF q.tooltip_count > 1 THEN q
    ELSE IF ~malloc_ok THEN q
    ELSE IF ~fd_ok THEN [q EXCEPT !.tooltip = "alive", !.fd = "bad"]
    ELSE tooltip_timer_reset([q EXCEPT !.tooltip = "alive", !.fd = "open"])

\* close(tooltip_fd) takes the descriptor out of the epoll set; the task
\* embedded in the tooltip is freed with it.  There is no display_unwatch_fd
\* and nothing takes an event of the descriptor out of the batch being run
widget_destroy_tooltip(p) ==
    IF p.tooltip = "NULL" THEN [p EXCEPT !.tooltip_count = 0]
    ELSE NoTooltip

window_create_tooltip(p) == [p EXCEPT !.widget = TRUE]

\* the ready descriptors epoll_wait can report
ReadyTasks(disp) ==
    (IF disp THEN {"display"} ELSE {})
    \cup (IF parent.fd = "open" /\ parent.expired THEN {"tooltip"} ELSE {})
    \cup (IF repeat.expired THEN {"repeat"} ELSE {})
    \cup (IF cursor.expired THEN {"cursor"} ELSE {})

Orders(S) ==
    {s \in [1 .. Cardinality(S) -> S] :
        \A i, j \in 1 .. Cardinality(S) : i # j => s[i] # s[j]}

Pending(t) == \E i \in 1 .. Len(batch.ep) : batch.ep[i] = t

Ran(b, op, t) == [b EXCEPT !.op = op, !.task = t]

TimerInit ==
    /\ parent = NoTooltip
    /\ repeat = [armed |-> FALSE, expired |-> FALSE]
    /\ cursor = [running |-> FALSE, armed |-> FALSE, expired |-> FALSE]
    /\ batch = [pc |-> "wait", ep |-> <<>>, stale |-> FALSE,
                op |-> "-", task |-> "-"]

\* count = epoll_wait(...): the events of every ready descriptor, in the
\* order the kernel reports them
EpollBatch ==
    /\ batch.pc = "wait"
    /\ \E disp \in BOOLEAN : \E ep \in Orders(ReadyTasks(disp)) :
        /\ ep # <<>>
        /\ batch' = [Ran(batch, "epoll_wait", "-") EXCEPT
                        !.pc = "batch", !.ep = ep]
    /\ UNCHANGED <<parent, repeat, cursor>>

\* task = ep[i].data.ptr; task->run(task, ep[i].events) for the display
\* connection: handle_display_data dispatches the events that arrived
RunDisplay ==
    /\ batch.pc = "batch" /\ batch.ep # <<>> /\ Head(batch.ep) = "display"
    /\ batch' = [Ran(batch, "handle_display_data", "display") EXCEPT
                    !.pc = "dispatch", !.ep = Tail(@)]
    /\ UNCHANGED <<parent, repeat, cursor>>

\* an input handler of the application calls widget_set_tooltip
SetTooltip ==
    /\ batch.pc = "dispatch"
    /\ parent.tooltip_count < MaxTooltipCount
    /\ \E malloc_ok, fd_ok \in BOOLEAN :
        parent' = widget_set_tooltip(parent, malloc_ok, fd_ok)
    /\ batch' = Ran(batch, "widget_set_tooltip", "-")
    /\ UNCHANGED <<repeat, cursor>>

\* an input handler of the application calls widget_destroy_tooltip; an event
\* of the tooltip's descriptor still in ep[] now points into freed memory
DestroyTooltip ==
    /\ batch.pc = "dispatch"
    /\ parent' = widget_destroy_tooltip(parent)
    /\ batch' = [Ran(batch, "widget_destroy_tooltip", "-") EXCEPT
                    !.stale = @ \/ (parent.tooltip # "NULL" /\ Pending("tooltip"))]
    /\ UNCHANGED <<repeat, cursor>>

\* keyboard_handle_key for the press of a repeating key: the repeat timer is
\* set, with an interval.  The handler returns before that when a grab
\* without button is active
KeyPress ==
    /\ batch.pc = "dispatch"
    /\ \E grab \in BOOLEAN :
        repeat' = IF grab THEN repeat ELSE [armed |-> TRUE, expired |-> FALSE]
    /\ batch' = Ran(batch, "key_press", "-")
    /\ UNCHANGED <<parent, cursor>>

\* keyboard_handle_key for the release of the repeating key (ignored under a
\* grab without button), or keyboard_handle_leave, which calls
\* input_remove_keyboard_focus: the repeat timer is disarmed, and a pending
\* expiration is dropped with it
KeyRelease ==
    /\ batch.pc = "dispatch"
    /\ \E ev \in {"release", "leave"}, grab \in BOOLEAN :
        repeat' = IF ev = "release" /\ grab THEN repeat
                  ELSE [armed |-> FALSE, expired |-> FALSE]
    /\ batch' = Ran(batch, "key_release", "-")
    /\ UNCHANGED <<parent, cursor>>

\* duration = 0 disarms the timer; timerfd_settime drops a pending expiration
cursor_delay_timer_reset(c, duration) ==
    [running |-> duration # 0, armed |-> duration # 0, expired |-> FALSE]

cancel_pointer_image_update(c) ==
    IF c.running THEN cursor_delay_timer_reset(c, 0) ELSE c

\* timed: the cursor is animated, the call comes from a frame callback
\* (force_frame false) and the frame lasts more than 100 ms, so that
\* schedule_pointer_image_update sets the timer; otherwise the next frame is
\* driven by a frame callback or there is none
pointer_surface_frame_callback(c, timed) ==
    LET d == cancel_pointer_image_update(c) IN
    IF timed THEN cursor_delay_timer_reset(d, 101) ELSE d

\* a frame callback of the pointer surface arrives, or the pointer focus is
\* lost (input_remove_pointer_focus, which only cancels)
PointerFrame ==
    /\ batch.pc = "dispatch"
    /\ \E timed \in BOOLEAN :
        cursor' = pointer_surface_frame_callback(cursor, timed)
    /\ batch' = Ran(batch, "pointer_frame", "-")
    /\ UNCHANGED <<parent, repeat>>

HandlersReturn ==
    /\ batch.pc = "dispatch"
    /\ batch' = [Ran(batch, "dispatched", "-") EXCEPT !.pc = "batch"]
    /\ UNCHANGED <<parent, repeat, cursor>>

\* the task of the tooltip timer: read the expirations of tooltip->tooltip_fd,
\* a blocking descriptor, then show the tooltip.  Run for an event whose
\* tooltip was freed earlier in the batch, it reads freed memory
tooltip_func ==
    /\ batch.pc = "batch" /\ batch.ep # <<>> /\ Head(batch.ep) = "tooltip"
    /\ IF batch.stale
       THEN /\ batch' = [Ran(batch, "use_after_free", "tooltip") EXCEPT
                            !.pc = "dead", !.ep = Tail(@)]
            /\ UNCHANGED parent
       ELSE IF ~parent.expired
       THEN /\ batch' = [Ran(batch, "blocked", "tooltip") EXCEPT
                            !.pc = "blocked", !.ep = Tail(@)]
            /\ UNCHANGED parent
       ELSE /\ batch' = [Ran(batch, "tooltip_func", "tooltip") EXCEPT
                            !.ep = Tail(@)]
            /\ parent' = window_create_tooltip([parent EXCEPT !.expired = FALSE])
    /\ UNCHANGED <<repeat, cursor>>

\* the blocked read of the tooltip timer returns once the timer expires (8
\* bytes), or -1 when a signal interrupts it, and then tooltip_func aborts
TooltipReadReturns ==
    /\ batch.pc = "blocked"
    /\ \E r \in {8, -1} :
        IF r = 8
        THEN /\ parent.expired
             /\ batch' = [Ran(batch, "tooltip_func", "tooltip") EXCEPT
                             !.pc = "batch"]
             /\ parent' = window_create_tooltip([parent EXCEPT !.expired = FALSE])
        ELSE /\ batch' = [Ran(batch, "abort", "tooltip") EXCEPT !.pc = "abort"]
             /\ UNCHANGED parent
    /\ UNCHANGED <<repeat, cursor>>

\* the repeat task ignores the result of its read
keyboard_repeat_func_unread ==
    /\ batch.pc = "batch" /\ batch.ep # <<>> /\ Head(batch.ep) = "repeat"
    /\ repeat' = [repeat EXCEPT !.expired = FALSE]
    /\ batch' = [Ran(batch, "keyboard_repeat_func", "repeat") EXCEPT
                    !.ep = Tail(@)]
    /\ UNCHANGED <<parent, cursor>>

\* the task of the key-repeat timer: the descriptor is non-blocking, a read
\* that finds no expiration (timer set again or disarmed) returns EAGAIN
keyboard_repeat_func ==
    /\ batch.pc = "batch" /\ batch.ep # <<>> /\ Head(batch.ep) = "repeat"
    /\ IF repeat.expired
       THEN /\ repeat' = [repeat EXCEPT !.expired = FALSE]
            /\ batch' = [Ran(batch, "keyboard_repeat_func", "repeat") EXCEPT
                            !.ep = Tail(@)]
       ELSE /\ UNCHANGED repeat
            /\ batch' = [Ran(batch, "repeat_eagain", "repeat") EXCEPT
                            !.ep = Tail(@)]
    /\ UNCHANGED <<parent, cursor>>

\* the task of the cursor-delay timer: nothing when the timer was cancelled,
\* nothing when the non-blocking read finds no expiration; otherwise the
\* next cursor frame, forced (callback NULL), which never sets the timer
cursor_timer_func ==
    /\ batch.pc = "batch" /\ batch.ep # <<>> /\ Head(batch.ep) = "cursor"
    /\ IF ~cursor.running
       THEN /\ UNCHANGED cursor
            /\ batch' = [Ran(batch, "cursor_cancelled", "cursor") EXCEPT
                            !.ep = Tail(@)]
       ELSE IF ~cursor.expired
       THEN /\ UNCHANGED cursor
            /\ batch' = [Ran(batch, "cursor_eagain", "cursor") EXCEPT
                            !.ep = Tail(@)]
       ELSE /\ cursor' = pointer_surface_frame_callback(
                             [cursor EXCEPT !.expired = FALSE], FALSE)
            /\ batch' = [Ran(batch, "cursor_timer_func", "cursor") EXCEPT
                            !.ep = Tail(@)]
    /\ UNCHANGED <<parent, repeat>>

\* the for loop over ep[] is over: back to the top of the while loop
BatchDone ==
    /\ batch.pc = "batch" /\ batch.ep = <<>>
    /\ batch' = [Ran(batch, "batch_done", "-") EXCEPT !.pc = "wait", !.stale = FALSE]
    /\ UNCHANGED <<parent, repeat, cursor>>

\* TOOLTIP_TIMEOUT has passed since the tooltip timer was set (one shot)
TooltipExpire ==
    /\ batch.pc \notin {"dead", "abort"}
    /\ parent.fd = "open" /\ parent.armed
    /\ parent' = [parent EXCEPT !.armed = FALSE, !.expired = TRUE]
    /\ UNCHANGED <<repeat, cursor, batch>>

\* the repeat delay or interval has passed (periodic)
RepeatExpire ==
    /\ batch.pc \notin {"dead", "abort"}
    /\ repeat.armed /\ ~repeat.expired
    /\ repeat' = [repeat EXCEPT !.expired = TRUE]
    /\ UNCHANGED <<parent, cursor, batch>>

\* the duration of the cursor frame has passed (one shot)
CursorExpire ==
    /\ batch.pc \notin {"dead", "abort"}
    /\ cursor.armed
    /\ cursor' = [cursor EXCEPT !.armed = FALSE, !.expired = TRUE]
    /\ UNCHANGED <<parent, repeat, batch>>

TimerNext ==
    \/ EpollBatch
    \/ RunDisplay
    \/ SetTooltip
    \/ DestroyTooltip
    \/ KeyPress
    \/ KeyRelease
    \/ HandlersReturn
    \/ tooltip_func
    \/ TooltipReadReturns
    \/ keyboard_repeat_func
    \/ BatchDone
    \/ TooltipExpire
    \/ RepeatExpire
    \/ PointerFrame
    \/ cursor_timer_func
    \/ CursorExpire

\* ------------------------------------------------------------------
\* A task of the application in the deferred list
\* ------------------------------------------------------------------

MaxChain == 2

\* forever: the task's run function defers the task again every time;
\* otherwise it does so chain more times.  state: "idle" before the
\* application defers the task, "queued" while it is in deferred_list
NoApp == [forever |-> FALSE, chain |-> 0, state |-> "idle"]

\* the application calls display_defer(display, task), before display_run
\* or from a callback that wl_display_dispatch runs
AppDefer ==
    /\ pc \in {"init", "dispatch"}
    /\ app.state = "idle"
    /\ Store(display_defer(Bundle, "t"), pc)
    /\ app' = [app EXCEPT !.state = "queued"]
    /\ last' = Step("display_defer")
    /\ UNCHANGED <<epoll_out, display_fd_events, hist, window_list, env>>

\* One round of the drain loop on the application's task: unlinked and
\* run; its run function may call display_exit, and defers the task again
\* as long as its chain lasts
RunTask ==
    /\ pc = "drain"
    /\ deferred_list # <<>>
    /\ deferred_list[deferred_prev(deferred_list)] = "t"
    /\ \E exit \in BOOLEAN :
         LET i  == deferred_prev(deferred_list)
             k  == IndexOf(defer_order, "t", 1)
             c0 == [Bundle EXCEPT
                      !.deferred_list = RemoveAt(@, i),
                      !.defer_order = IF k = 0 THEN @ ELSE RemoveAt(@, k)]
             c1 == IF exit THEN display_exit(c0) ELSE c0
             again == app.forever \/ app.chain > 0
             c2 == IF again THEN display_defer(c1, "t") ELSE c1
         IN  /\ Store(c2, "drain")
             /\ app' = [app EXCEPT
                          !.chain = IF app.forever \/ @ = 0 THEN @ ELSE @ - 1,
                          !.state = IF again THEN "queued" ELSE "done"]
             /\ last' = [Step("app_task") EXCEPT
                           !.oldest = IF defer_order = <<>> THEN "-"
                                      ELSE Head(defer_order)]
    /\ UNCHANGED <<epoll_out, display_fd_events, hist, window_list, env>>

DrainNext ==
    \/ LoopNext /\ UNCHANGED app
    \/ AppDefer
    \/ RunTask

\* What is left for the drain loop to do: the tasks in the list, the passes
\* that a pending resize adds (idle_resize asks for a redraw, which defers
\* the window's task again) and the re-deferrals left in the chain of the
\* application's task
DrainMeasure ==
    Len(deferred_list)
    + Cardinality({w \in Windows : win[w].resize_needed})
    + (IF app.state = "queued" THEN app.chain ELSE 0)

\* ------------------------------------------------------------------
\* The shell configures a window
\* ------------------------------------------------------------------

ConfigureStates == {{}, {"fullscreen"}, {"maximized"}}

\* wl_display_dispatch delivers a configure event of the window's
\* xdg_surface
Configure ==
    /\ pc = "dispatch"
    /\ \E w \in Live, states \in ConfigureStates :
       \E width \in {0} \cup Widths(w), height \in Heights :
         /\ Store(handle_surface_configure(Bundle, w, width, height, states),
                  "dispatch")
         /\ last' = Step("handle_surface_configure")
    /\ UNCHANGED <<epoll_out, display_fd_events, hist, window_list, env>>

ConfigNext ==
    \/ LoopNext
    \/ Configure

\* A program with one window on a system where storage can run out
EnvConfigure == [zero |-> TRUE, faulty |-> TRUE, anim |-> FALSE]

Init ==
    /\ LoopInit(EnvLoop, <<"w1", "w2">>, {<<"normal", 1>>})
    /\ OfferInit
    /\ SeatInit
    /\ TimerInit
    /\ app = NoApp

InitRedraw ==
    /\ LoopInit(EnvRedraw, <<"w1">>, {<<"normal", 1>>, <<"90", 2>>})
    /\ OfferInit
    /\ SeatInit
    /\ TimerInit
    /\ app = NoApp

Next == LoopNext /\ UNCHANGED <<offervars, seatvars, timervars, app>>

NextOffer == OfferNext /\ UNCHANGED <<loopvars, seatvars, timervars, app>>

Spec == Init /\ [][Next]_vars

SpecRedraw == InitRedraw /\ [][Next]_vars

SpecOffer == Init /\ [][NextOffer]_vars

InitSeat ==
    /\ LoopInit(EnvLoop, <<"w1", "w2">>, {<<"normal", 1>>})
    /\ OfferInit
    /\ SeatInitOf(Variants)
    /\ TimerInit
    /\ app = NoApp

NextSeat == SeatNext /\ UNCHANGED <<loopvars, offervars, timervars, app>>

NextTimer == TimerNext /\ UNCHANGED <<loopvars, offervars, seatvars, app>>

SpecTimer == Init /\ [][NextTimer]_vars

InitDrain ==
    /\ LoopInit(EnvLoop, <<"w1">>, {<<"normal", 1>>})
    /\ OfferInit
    /\ SeatInit
    /\ TimerInit
    /\ app \in {a \in [forever : BOOLEAN, chain : 0 .. MaxChain,
                        state : {"idle"}] : a.forever => a.chain = 0}

NextDrain == DrainNext /\ UNCHANGED <<offervars, seatvars, timervars>>

SpecDrain == InitDrain /\ [][NextDrain]_vars

SpecSeat == InitSeat /\ [][NextSeat]_vars

InitConfigure ==
    /\ LoopInit(EnvConfigure, <<"w1">>, {<<"normal", 1>>})
    /\ OfferInit
    /\ SeatInit
    /\ TimerInit
    /\ app = NoApp

NextConfigure ==
    ConfigNext /\ UNCHANGED <<offervars, seatvars, timervars, app>>

SpecConfigure == InitConfigure /\ [][NextConfigure]_vars

-----------------------------------------------------------------------------
(* Claims about display_run *)

\* C1: every task handed to display_defer is run exactly once and has run
\* when display_run reaches its flush and its epoll_wait: no deferred task
\* is still waiting there.
C1_DeferredRunBeforeWait ==
    pc \in {"flush", "wait"} => defer_order = <<>> /\ deferred_list = <<>>

\* C7: deferred tasks run in FIFO order: the task a round of the drain
\* loop runs is the one that was deferred first among those still queued.
C7_Fifo ==
    last.op = "idle_redraw" => last.w = last.oldest

\* A task has just run and deferred itself again while a task deferred
\* before that is still queued.
C7_Witness ==
    /\ last.op = "idle_redraw"
    /\ Len(defer_order) >= 2
    /\ defer_order[Len(defer_order)] = last.w
    /\ pc = "drain"

\* C8: whenever display_run has returned, running had been cleared.
C8_ReturnsOnlyOnExit ==
    pc = "returned" => ~running

\* C9: once the display descriptor was reported with an error or a hangup,
\* exit is requested, no read-dispatch and no flush is made on the
\* connection, and display_run does not flush or wait again.
C9_HangupTerminates ==
    hist.hup_seen =>
        /\ ~running
        /\ ~hist.io_after_hup
        /\ pc \in {"drain", "pending", "check", "returned", "exit",
                   "crash", "abort"}

\* display_run has returned after a hangup.
C9_Witness ==
    hist.hup_seen /\ pc = "returned"

-----------------------------------------------------------------------------
(* Claims about the redraw scheduler *)

\* C2: a redraw pass that performs no resize makes no commit on a surface
\* that is waiting for its frame callback and leaves that surface and its
\* callback as they are.
C2_NoSecondCommit ==
    [][(last'.op = "idle_redraw" /\ ~last'.resized) =>
          \A s \in Surfaces :
             (window_of(s) = last'.w /\ surf[s].frame_cb # "null") =>
                 /\ s \notin last'.committed
                 /\ surf'[s] = surf[s]
                 /\ Len(cbs'[s]) = Len(cbs[s])]_vars

\* A pass without resize has left alone a surface for which a redraw was
\* requested while its frame callback was outstanding.
C2_Witness ==
    /\ last.op = "idle_redraw"
    /\ ~last.resized
    /\ \E s \in last.awaiting :
          surf[s].redraw_needed /\ surf[s].frame_cb = "live"

\* C3: after a pass that resized and failed to acquire the main surface's
\* backing store, the pending allocation and the main surface's allocation
\* have the size of the main surface's last committed buffer.
C3_ResizeRollback ==
    (last.op = "idle_redraw" /\ last.resized /\ last.failed) =>
        LET m == surf[main_surface(last.w)]
            p == win[last.w].pending_allocation
        IN  /\ p.width = m.server_allocation.width
            /\ p.height = m.server_allocation.height
            /\ m.allocation.width = m.server_allocation.width
            /\ m.allocation.height = m.server_allocation.height

\* A failed resize has been rolled back to the size of a buffer that was
\* presented before.
C3_Witness ==
    /\ last.op = "idle_redraw"
    /\ last.resized
    /\ last.failed
    /\ surf[main_surface(last.w)].server_allocation.width > 0
    /\ pc = "drain"

\* C10: a surface never has more than one frame callback outstanding.
C10_OneFrameCallback ==
    \A s \in Surfaces : Len(cbs[s]) <= 1

\* A pass has committed a surface whose frame callback was outstanding:
\* the old callback was cancelled and a new one requested in one step.
C10_Witness ==
    /\ last.op = "idle_redraw"
    /\ \E s \in last.awaiting \cap last.committed :
          surf[s].frame_cb = "live" /\ Len(cbs[s]) = 1

-----------------------------------------------------------------------------
(* Claims about data offers *)

\* Every pipe made for a read of the offer that is still open has reached
\* its end: the far side has closed it and nothing is left in it.
StreamsEnded(o) ==
    \A f \in Fds : (fds[f].open /\ fds[f].owner = o)
                       => (~fds[f].wopen /\ fds[f].data = 0)

\* No run of the offer's task can change anything any more.
Settled(o) ==
    /\ blocked = "-"
    /\ \A f \in Fds : (Ready(f) /\ fds[f].watch = o)
                          => ~(offer[o].fd \in Fds /\ fds[offer[o].fd].open)

\* C4: an offer on which two reads were in flight together, whose streams
\* have all ended and which the device no longer holds, has been
\* deallocated exactly once (freed, not twice, no reference left).
C4_TwoReadsFreedOnce ==
    \A o \in Offers :
        ( /\ offer[o].state # "none"
          /\ offer[o].overlap
          /\ Cardinality(offer[o].asked) = 2
          /\ o # input.drag_offer /\ o # input.selection_offer
          /\ StreamsEnded(o)
          /\ Settled(o) )
        => ( /\ offer[o].state = "freed"
             /\ offer[o].frees = 1
             /\ offer[o].refcount = 0 )

-----------------------------------------------------------------------------
(* Claims about the primary selection *)

Offered(events) ==
    LET IsOffer(e) == e[1] = "offer"
        types == SelectSeq(events, IsOffer)
    IN  [i \in 1..Len(types) |-> types[i][2]]

Cancels(events, x) ==
    LET IsCancel(e) == e = <<"cancelled", x>>
    IN  Len(SelectSeq(events, IsCancel))

\* C5: a set_source that replaces source A by another source B runs A's
\* cancellation hook exactly once and leaves B current; a paste creates
\* offers only for the current source and advertises exactly its types.
C5_SingleOwner ==
    /\ ( /\ slast.op = "set_selection"
         /\ slast.applied
         /\ slast.prev \in Sources
         /\ slast.prev # slast.source )
       => ( /\ Cancels(slast.events, slast.prev) = 1
            /\ sources[slast.prev].cancelled
            /\ seat.primary_selection_data_source = slast.source )
    /\ slast.op = "paste"
       => \A i \in 1..Len(slast.events) :
              slast.events[i][1] = "selection_offer"
              => /\ slast.events[i][3] = seat.primary_selection_data_source
                 /\ Offered(slast.events)
                        = mime_types(seat.primary_selection_data_source)

C5_Witness ==
    /\ slast.op = "paste"
    /\ slast.events # <<>>
    /\ \E x \in Sources :
         /\ sources[x].cancelled
         /\ x # seat.primary_selection_data_source
         /\ sources[x].state = "alive"

\* C6: destroying the current source leaves the seat without a source and
\* emits the primary-selection signal exactly once; no operation touches a
\* source that has been destroyed.
C6_DestroyClears ==
    /\ ( /\ slast.op = "source_destroy"
         /\ slast.prev = slast.source )
       => ( /\ seat.primary_selection_data_source = "NULL"
            /\ slast.emitted = 1 )
    /\ slast.op # "source_destroy"
       => \A x \in slast.used : sources[x].state = "alive"
    /\ seat.primary_selection_data_source \in Sources
       => sources[seat.primary_selection_data_source].state = "alive"

C6_Witness ==
    /\ slast.op \in {"paste", "set_selection"}
    /\ seat.status = "ok"
    /\ seat.listener \in Sources
    /\ sources[seat.listener].state = "destroyed"

-----------------------------------------------------------------------------
(* Claims about the redraw scheduler, continued *)

\* The step is a run of the redraw task of window w.
RedrawPass(w) ==
    /\ pc = "drain"
    /\ deferred_list # <<>>
    /\ deferred_list[Len(deferred_list)] = w
    /\ last'.op = "idle_redraw"
    /\ last'.w = w

\* C11: a redraw asked for while the surface awaits its frame callback is
\* carried over: the callback schedules the window's redraw task again,
\* and the pass of that task repaints the surface.
C11_CarriedRedraw ==
    [][ /\ \A s \in Surfaces :
             ( /\ surf[s].frame_cb = "live"
               /\ surf[s].redraw_needed
               /\ surf'[s].frame_cb = "null" )
             => ( /\ win'[window_of(s)].redraw_task_scheduled
                  /\ window_of(s) \in SeqToSet(deferred_list') )
        /\ \A w \in Windows :
             RedrawPass(w)
             => \A s \in Surfaces :
                    (window_of(s) = w /\ surf[s].carried)
                    => (s \in last'.committed /\ ~surf'[s].redraw_needed)
      ]_vars

-----------------------------------------------------------------------------
(* Claims about data offers, continued *)

\* The device holds the offer as its drag offer or its selection offer.
Held(o) == o = input.drag_offer \/ o = input.selection_offer

\* The streamed reads in flight on the offer: the pipes made for it by a
\* receive that have not been closed.
Reads(o) == {f \in Fds : fds[f].open /\ fds[f].owner = o}

\* C12: an offer is released exactly when its reference count reaches
\* zero: a released offer is neither held by the device nor being read,
\* and it was released once; an offer with no reference left is released.
C12_FreedAtZero ==
    \A o \in Offers :
        /\ offer[o].state = "freed"
           => ( /\ ~Held(o)
                /\ Reads(o) = {}
                /\ offer[o].frees = 1
                /\ offer[o].refcount = 0 )
        /\ offer[o].state = "alive" => offer[o].refcount > 0

\* The device has received the offer and has not dropped it: it holds it
\* as drag or selection offer, or has not been told yet what it is for.
DeviceHolds(o) ==
    \/ Held(o)
    \/ offer[o].state = "alive" /\ offer[o].asked = {}

\* C13: the reference count of an offer is one for the device that holds
\* it plus one for each streamed read in flight on it.
C13_RefcountBalance ==
    \A o \in Offers :
        offer[o].state # "none"
        => offer[o].refcount = (IF DeviceHolds(o) THEN 1 ELSE 0)
                                 + Cardinality(Reads(o))

-----------------------------------------------------------------------------
(* Claims about the primary selection, continued *)

\* The selection-changed notifications the step sent to devices of client.
Changed(events, client) ==
    LET IsChanged(e) == e = <<"selection_changed", client>>
    IN  Len(SelectSeq(events, IsChanged))

DevicesOf(client) ==
    Cardinality({i \in 1..Len(seat.devices) : seat.devices[i] = client})

\* C14: a set_source that replaces a source by one of another connection
\* notifies every registered device except those of the new owner's
\* connection, once each; with the same owner nothing is notified.
C14_PeersNotified ==
    ( /\ slast.op = "set_selection"
      /\ slast.applied
      /\ slast.prev \in Sources )
    => LET old == sources[slast.prev].client
           new == sources[slast.source].client
       IN  \A client \in Clients :
               Changed(slast.events, client) =
                   IF old # new /\ client # new
                   THEN DevicesOf(client) ELSE 0

\* C15: a set-selection request of a client that does not hold the
\* pointer focus changes nothing: the compositor goes on, nothing is
\* cancelled, installed, linked, unlinked or sent.
C15_FocusRequired ==
    ( /\ slast.op = "set_selection"
      /\ seat.focus # sources[slast.source].client )
    => ( /\ seat.status = "ok"
         /\ seat.primary_selection_data_source = slast.prev
         /\ slast.trace = <<>>
         /\ slast.events = <<>> )

\* The paste has a source to offer and a device to offer it to.
CanPaste ==
    /\ seat.focus # "NULL"
    /\ seat.primary_selection_data_source # "NULL"
    /\ DevicesOf(seat.focus) > 0

\* The events of one offer of the current source to the focused client:
\* the announcement, then one advertisement per type in the source's order.
OneOffer(events) ==
    LET types == mime_types(seat.primary_selection_data_source)
    IN  /\ Len(events) = 1 + Len(types)
        /\ events[1] = <<"selection_offer", seat.focus,
                         seat.primary_selection_data_source>>
        /\ \A i \in 1..Len(types) : events[i + 1] = <<"offer", types[i]>>

\* C16 as stated: a paste without focus, source or device sends nothing;
\* any other paste creates, announces and advertises exactly one offer.
C16_PasteOffer ==
    slast.op = "paste"
    => IF CanPaste THEN OneOffer(slast.events) ELSE slast.events = <<>>

\* C16 amended: as stated, unless the offer cannot be created, in which
\* case nothing is sent.
C16_PasteOfferIfCreated ==
    slast.op = "paste"
    => IF ~CanPaste THEN slast.events = <<>> /\ slast.trace = <<>>
       ELSE IF slast.trace = <<"no_offer">> THEN slast.events = <<>>
       ELSE slast.trace = <<"offer">> /\ OneOffer(slast.events)

C16_Witness ==
    /\ slast.op = "paste"
    /\ slast.trace = <<"offer">>
    /\ Len(slast.events) = 3
    /\ DevicesOf(seat.focus) > 0

-----------------------------------------------------------------------------
(* Claims about data offers, continued *)

\* C17: a receive whose pipe cannot be made has no effect: no pipe is
\* handed to the far side or watched, the offer keeps its reference count,
\* descriptor and sink, and the loop goes on.
C17_PipeFailure ==
    [][ olast'.op = "receive_failed"
        => ( /\ offer' = offer
             /\ fds' = fds
             /\ input' = input
             /\ blocked' = "-" ) ]_vars

C17_Witness ==
    /\ olast.op = "receive_failed"
    /\ offer[olast.o].state = "alive"
    /\ Held(olast.o)
    /\ Reads(olast.o) # {}

\* C18: at most one streamed read is in flight on an offer.
C18_OneRead == \A o \in Offers : Cardinality(Reads(o)) <= 1

\* the owner of task t was destroyed while an event of t was still in the
\* batch that display_run is running
OwnerDestroyed(t) == t = "tooltip" /\ batch.stale

\* C19: the event loop never invokes the run callback of a task whose owning
\* object has already been destroyed, also when the owner is destroyed by a
\* callback that runs earlier in the same batch of ready descriptors.
C19_RunOnlyLiveOwner ==
    [][\A t \in Tasks :
          (batch.pc = "batch" /\ batch'.task = t) => ~OwnerDestroyed(t)]_vars

\* C20: no task blocks the thread: every read performed by a readiness
\* callback returns without blocking, also when the timer is set again
\* between the readiness report and the callback's read.
C20_NoBlockingRead == batch.pc # "blocked"

\* C21: a failed or short read on a secondary descriptor (here the timer
\* descriptor of a tooltip or of key repeat) never terminates the process:
\* the loop keeps running.
C21_ErrorsLocal == batch.pc # "abort"

\* C22: after a timer is disarmed, its task performs no action (no
\* synthesized key press, no cursor frame advance) until the timer is armed
\* again, even when the expiry had already been reported ready before the
\* disarm; a timer set again has one pending deadline, so that a task run
\* acts only on an expiration that is still pending.
C22_DisarmedSilent ==
    [][(batch.pc = "batch" /\ batch.ep # <<>> /\ batch'.ep = Tail(batch.ep)) =>
          /\ batch'.op = "keyboard_repeat_func" => (repeat.armed /\ repeat.expired)
          /\ batch'.op = "cursor_timer_func" => (cursor.running /\ cursor.expired)]_vars

\* the repeat task was run for an expiry reported before the disarm, and
\* did nothing
C22_Witness == batch.op = "repeat_eagain" /\ ~repeat.armed

\* C23: an exit request takes effect only at the exit check, which follows
\* the drain pass: when display_exit is called from a callback while
\* display_run is running, the deferred tasks still queued are run before
\* the check (the drain pass comes first, or nothing is queued), and
\* display_run does not flush or wait again.
C23_ExitAfterDrain ==
    [][/\ (running /\ ~running' /\ pc # "init") =>
            (pc' \in {"drain", "dispatch"} \/ deferred_list' = <<>>)
       /\ pc' \in {"flush", "wait"} => running']_vars

\* C24: when the flush of display_run reports would-block the loop does not
\* exit, write-interest is added to the display descriptor and the loop
\* proceeds to wait; write-interest is added by such a flush only; and it is
\* removed again once a flush performed on writability completes.
C24_WriteInterest ==
    [][/\ (last'.op = "flush" /\ last'.ret = "eagain") =>
            (epoll_out' /\ pc' = "wait" /\ running')
       /\ (~epoll_out /\ epoll_out') =>
            (last'.op = "flush" /\ last'.ret = "eagain")
       /\ (/\ last'.op = "handle_display_data_done"
           /\ "out" \in display_fd_events
           /\ last'.ret \in {"ok", "sent"}) => ~epoll_out']_vars

\* C25: the drain pass imposes no bound on the number of tasks it runs: as
\* long as a deferred task defers itself again every time it runs,
\* display_run stays in the drain loop and never reaches the exit check, the
\* flush or the wait (not even after display_exit was called); if the chain
\* of re-deferrals is finite, the drain pass terminates and the loop proceeds.
\* The drain loop is sequential code, so it terminates when every task it
\* runs lowers a measure that cannot go below zero; it is left only with
\* the list empty, and then for wl_display_dispatch_pending (or by a task
\* that ends the process).
C25_UnboundedDrain ==
    [][/\ (pc = "drain" /\ app.forever /\ app.state = "queued") =>
            \/ pc' \in {"exit", "crash", "abort"}
            \/ pc' = "drain" /\ app'.state = "queued"
       /\ (pc = "drain" /\ ~app.forever
           /\ last'.op \in {"idle_redraw", "app_task"}) =>
            \/ pc' \in {"exit", "crash", "abort"}
            \/ pc' = "drain" /\ DrainMeasure' < DrainMeasure
       /\ (pc = "drain" /\ pc' \notin {"drain", "exit", "crash", "abort"}) =>
            (deferred_list = <<>> /\ pc' = "pending")]_vars

\* the task that defers itself every time has just run after display_exit
\* was called, and display_run is still in the drain loop
C25_Witness ==
    /\ app.forever /\ last.op = "app_task" /\ ~running /\ pc = "drain"
    /\ deferred_list # <<>>

Occurrences(q, x) == Cardinality({i \in 1 .. Len(q) : q[i] = x})

\* C26: the redraw task of a window is in the deferred queue at most once,
\* and redraw_task_scheduled is true exactly when the task is queued and
\* has not yet started to run.
C26_ScheduledOnce ==
    \A w \in Windows :
        /\ Occurrences(deferred_list, w) <= 1
        /\ win[w].redraw_task_scheduled <=> (Occurrences(deferred_list, w) = 1)

\* a resize of the first window was requested before display_run, while its
\* redraw task was already queued: the task is queued once
C26_Witness ==
    /\ pc = "init" /\ last.op = "window_schedule_resize"
    /\ win["w1"].pending_allocation.width # 0
    /\ win["w1"].redraw_task_scheduled
    /\ Occurrences(deferred_list, "w1") = 1

\* the pass just run resized window w, failed on the main surface and
\* undid the resize, and the process goes on
UndonePass(w) ==
    /\ last.op = "idle_redraw" /\ last.w = w
    /\ last.resized /\ last.failed
    /\ pc = "drain"

\* C27: after a redraw pass in which acquiring the backing store of the
\* main surface failed and the resize was undone, the window is idle: no
\* redraw task is scheduled for it and no frame callback is outstanding
\* for the main surface.
C27_IdleAfterUndo ==
    \A w \in Windows : UndonePass(w) =>
        /\ ~win[w].redraw_task_scheduled
        /\ surf[main_surface(w)].frame_cb = "null"

\* The sizes of two rectangles differ.
Differs(a, b) == a.width # b.width \/ a.height # b.height

\* C27 as the code has it: after a redraw pass that resized, failed on the
\* main surface and undid the resize, no frame callback is outstanding for
\* the main surface, and the redraw task of the window is scheduled again
\* (and queued) exactly when the resize or its undo changed the allocation
\* of a surface of the window.
C27_PendingAfterUndo ==
    [][\A w \in Windows :
         (pc = "drain" /\ deferred_list # <<>> /\ UndonePass(w)') =>
            LET pend    == win[w].pending_allocation
                sa      == surf[main_surface(w)].server_allocation
                changed == \/ \E s \in Surfaces :
                                 /\ window_of(s) = w
                                 /\ Differs(surf[s].allocation, pend)
                           \/ Differs(pend, sa)
            IN  /\ surf'[main_surface(w)].frame_cb = "null"
                /\ win'[w].redraw_task_scheduled <=> changed
                /\ win'[w].redraw_task_scheduled =>
                       Occurrences(deferred_list', w) = 1]_vars

\* A resize was undone and the window's redraw task is queued again.
C27_Witness ==
    /\ UndonePass("w1")
    /\ win["w1"].redraw_task_scheduled
    /\ "w1" \in SeqToSet(deferred_list)

\* C28: when a redraw pass resized, failed on the main surface and undid
\* the resize, the process terminates if the size reverted to (the size
\* of the main surface's last committed buffer) is zero-sized, and goes
\* on with the drain loop, running as before, if it is not.
C28_FatalWhenZero ==
    [][\A w \in Windows :
         (/\ pc = "drain" /\ deferred_list # <<>>
          /\ last'.op = "idle_redraw" /\ last'.w = w
          /\ last'.resized /\ last'.failed) =>
            LET sa == surf[main_surface(w)].server_allocation
            IN  IF sa.width = 0 \/ sa.height = 0
                THEN pc' = "exit"
                ELSE pc' = "drain" /\ running' = running]_vars

\* The first resize of a window failed: nothing was ever committed, the
\* undo went back to 0x0 and the process has exited.
C28_Witness ==
    /\ pc = "exit"
    /\ last.op = "idle_redraw" /\ last.resized /\ last.failed
    /\ win[last.w].pending_allocation = Rect(0, 0)

\* The step is a redraw pass on window w that resized, painted the main
\* surface and could not get the backing store of sub-surface s.
SubFailed(w, s) ==
    /\ pc = "drain" /\ deferred_list # <<>> /\ pc' = "drain"
    /\ last'.op = "idle_redraw" /\ last'.w = w
    /\ last'.resized /\ ~last'.failed
    /\ window_of(s) = w /\ s # main_surface(w)
    /\ s \notin last'.committed

\* C29: a pass that resized and failed on a sub-surface only keeps the
\* resize (pending allocation and main surface's allocation have the
\* resized size), commits the main surface and every other sub-surface
\* whose backing store it got, and leaves the failing sub-surface with
\* its redraw-needed flag set and nothing holding it back, so that a later
\* pass paints it.
C29_SubFailureKeepsResize ==
    [][\A w \in Windows, s \in Surfaces : SubFailed(w, s) =>
          /\ win'[w].pending_allocation = win[w].pending_allocation
          /\ ~Differs(surf'[main_surface(w)].allocation,
                      win[w].pending_allocation)
          /\ main_surface(w) \in last'.committed
          /\ \A t \in Surfaces \ {s} :
                window_of(t) = w =>
                    t \in last'.committed \/ surf'[t].redraw_needed
          /\ surf'[s].redraw_needed
          /\ surf'[s].frame_cb = "null"]_vars

\* C30: a redraw pass commits a surface whose frame callback is
\* outstanding only when the pass itself performed a resize that was
\* pending.  The window-wide redraw flag that
\* allows it is set by nothing else: no request (widget_schedule_redraw,
\* window_schedule_redraw, window_schedule_resize) sets it, every pass
\* starts with it clear and, unless the process dies in it, ends with it
\* clear.
C30_ForcedOnlyByResize ==
    [][/\ pc' # "crash" => \A w \in Windows : ~win'[w].redraw_needed
       /\ (pc = "drain" /\ deferred_list # <<>>
            /\ last'.op = "idle_redraw") =>
              \A s \in last'.awaiting \cap last'.committed :
                 /\ last'.resized
                 /\ win[last'.w].resize_needed]_vars

\* A pass that resized has repainted a sub-surface whose frame callback
\* was outstanding.
C30_Witness ==
    /\ last.op = "idle_redraw"
    /\ last.resized
    /\ last.awaiting \cap last.committed # {}
    /\ pc = "drain"

\* C31: a redraw pass that resized, failed on the main surface and undid
\* the resize leaves the window's saved_allocation as it was before the
\* pass, fullscreen or maximized or neither.
C31_SavedPersists ==
    [][\A w \in Windows :
         (pc = "drain" /\ deferred_list # <<>> /\ UndonePass(w)') =>
            win'[w].saved_allocation = win[w].saved_allocation]_vars

\* The step runs the offer's task for the readiness of pipe f, whose
\* stream has ended: the far side closed it and nothing is left in it.
RunAtEnd(f) ==
    /\ blocked = "-"
    /\ fds[f].open /\ fds[f].data = 0 /\ ~fds[f].wopen
    /\ olast'.op = "offer_io_func" /\ olast'.ready = f

\* C32: when the task is run for a streamed read whose stream has ended,
\* the read is made on that read's descriptor and returns zero, the sink
\* gets byte count zero, the descriptor is closed (and so no longer
\* watched: the task cannot run for it again) and one reference of the
\* offer is released.
C32_EndOfStream ==
    [][\A f \in Fds : RunAtEnd(f) =>
          LET o == fds[f].owner
          IN  /\ olast'.fd = f
              /\ olast'.len = <<0, 0>>
              /\ ~fds'[f].open
              /\ offer'[o].refcount = offer[o].refcount - 1]_vars

\* C33: while two reads are in flight on an offer, the task run for the
\* readiness of the pipe of one of them reads that pipe (and so hands the
\* bytes to the sink stored by the receive that made it: descriptor and
\* sink are stored together), and no other pipe is closed by that run.
C33_OwnDescriptor ==
    [][\A f \in Fds :
         (/\ blocked = "-"
          /\ fds[f].open
          /\ Cardinality(Reads(fds[f].owner)) = 2
          /\ olast'.op = "offer_io_func" /\ olast'.ready = f) =>
            /\ olast'.fd = f
            /\ \A g \in Fds \ {f} : fds'[g].open = fds[g].open]_vars

\* The source whose destroy signal the seat's listener is linked in; a
\* destroyed source has no signal left.
ListenerOn ==
    IF seat.listener \in Sources /\ sources[seat.listener].state = "alive"
    THEN seat.listener ELSE "NULL"

\* The first position of what in the trace of a step, 0 when absent.
Pos(trace, what) == IndexOf(trace, what, 1)

\* C34: after every set_source and every destruction of a source (as long
\* as the compositor runs) the seat's listener is linked to the current
\* source and to nothing when there is none; a set_source that replaces a
\* source cancels it, then unlinks the listener, then installs the new
\* source and links the listener to it.
C34_ListenerOnCurrent ==
    /\ (seat.status = "ok" /\ slast.op \in {"set_selection", "source_destroy"})
          => ListenerOn = seat.primary_selection_data_source
    /\ (slast.op = "set_selection" /\ slast.applied /\ slast.prev \in Sources)
          => /\ Pos(slast.trace, "cancel") = 1
             /\ Pos(slast.trace, "cancel") < Pos(slast.trace, "remove")
             /\ Pos(slast.trace, "remove") < Pos(slast.trace, "install")
             /\ Pos(slast.trace, "install") < Pos(slast.trace, "add")
             /\ slast.events[1] = <<"cancelled", slast.prev>>

\* A set_source has replaced a source by another one.
C34_Witness ==
    /\ slast.op = "set_selection" /\ slast.applied
    /\ slast.prev \in Sources /\ slast.prev # slast.source
    /\ ListenerOn = slast.source
    /\ sources[slast.prev].state = "alive"

\* C39: the seat's current source is never a source whose cancellation
\* hook has run.
C39_CurrentNotCancelled ==
    seat.primary_selection_data_source \in Sources
        => ~sources[seat.primary_selection_data_source].cancelled

\* C40: the destruction of a source that is not the current one (it was
\* replaced by a later set_source) leaves the seat's source as it was,
\* the listener linked to it, and emits no primary-selection signal.
C40_SupersededDestroy ==
    (slast.op = "source_destroy" /\ slast.source # slast.prev)
        => /\ seat.primary_selection_data_source = slast.prev
           /\ ListenerOn = slast.prev
           /\ slast.emitted = 0

\* A source that had been replaced and cancelled was destroyed while its
\* successor is current.
C40_Witness ==
    /\ slast.op = "source_destroy"
    /\ sources[slast.source].cancelled
    /\ slast.prev \in Sources /\ slast.prev # slast.source
    /\ seat.primary_selection_data_source = slast.prev
    /\ seat.listener = slast.prev

\* C35: the byte count offer_io_func hands to the sink is the number of
\* bytes read, between 0 and chunk_size; a read that failed is not handed
\* over as data.
C35_ByteCount ==
    olast.op = "offer_io_func"
        => olast.len[1] = 0 /\ olast.len[2] <= chunk_size

\* C36: a redraw pass that finds a resize scheduled while the frame
\* callback of the main surface is outstanding returns without resizing,
\* painting or committing anything and leaves resize_needed set; any
\* other pass that finds a resize scheduled performs it; and when the
\* done event of that frame callback arrives while the resize is
\* scheduled, frame_callback queues the redraw task, whose pass then finds
\* no callback outstanding.  A scheduled resize is never stranded: its
\* task is queued, or the main surface's callback is outstanding (and,
\* when live, still to be answered).
C36_ResizeThrottled ==
    [][\A w \in Windows :
         LET m == main_surface(w)
         IN  /\ RedrawPass(w) =>
                   IF win[w].resize_needed /\ surf[m].frame_cb # "null"
                   THEN /\ ~last'.resized
                        /\ last'.committed = {}
                        /\ surf' = surf /\ cbs' = cbs
                        /\ win' = [win EXCEPT
                                     ![w].redraw_task_scheduled = FALSE]
                        /\ pc' = "drain"
                   ELSE win[w].resize_needed => last'.resized
             /\ (/\ win[w].resize_needed
                 /\ surf[m].frame_cb = "live"
                 /\ surf'[m].frame_cb = "null") =>
                   /\ win'[w].resize_needed
                   /\ win'[w].redraw_task_scheduled
                   /\ Occurrences(deferred_list', w) = 1
             /\ win'[w].resize_needed =>
                   \/ win'[w].redraw_task_scheduled
                   \/ surf'[m].frame_cb # "null"
             /\ (win'[w].resize_needed /\ surf'[m].frame_cb = "live") =>
                   cbs'[m] # <<>>]_vars

\* A pass has just returned without resizing: the resize is still
\* scheduled and waits for the main surface's frame callback.
C36_Witness ==
    /\ last.op = "idle_redraw" /\ ~last.resized
    /\ win[last.w].resize_needed
    /\ surf[main_surface(last.w)].frame_cb = "live"
    /\ ~win[last.w].redraw_task_scheduled
    /\ pc = "drain"

\* C37: a surface's frame_cb is NULL or refers to a frame callback that
\* exists and whose done event can still be delivered; no callback is
\* destroyed twice (the process never crashes on such a destroy).
C37_FrameCbLive ==
    /\ \A s \in Surfaces :
          /\ surf[s].frame_cb \in {"null", "live"}
          /\ surf[s].frame_cb = "live" => cbs[s] # <<>>
    /\ pc # "crash"

\* The part of C38 about an exit requested while display_run runs: once
\* running is cleared inside the loop it stays cleared, and the test after
\* wl_display_dispatch_pending then leaves the loop.
ExitKeptInLoop ==
    (pc \notin {"init", "returned", "crash", "abort", "exit"} /\ ~running)
        => /\ ~running'
           /\ pc = "check" => pc' = "returned"

\* C38: an exit request is never lost.  A display_exit called before
\* display_run is entered is still in force once display_run has been
\* entered, and one made while display_run runs stays in force until the
\* test of running, which then returns.
C38_ExitNeverLost ==
    [][/\ (pc = "init" /\ last.op = "display_exit") => ~running'
       /\ ExitKeptInLoop]_vars
====
